---- MODULE Spec2Model ----
(***************************************************************************)
(* Model of the coding-agent file tools: the path sandbox                  *)
(* (src/agent/security.ts) and the tool dispatcher RepoTools               *)
(* (src/agent/tools.ts).                                                   *)
(*                                                                         *)
(* Text is modelled character by character: a string is a sequence of      *)
(* one-character strings, so that toLowerCase, extname, split, indexOf and *)
(* replace are computed the way the JavaScript runtime computes them.      *)
(* An absolute path is the sequence of its segments below "/".             *)
(***************************************************************************)
EXTENDS Integers, Sequences, FiniteSets, TLC

\* ------------------------------------------------------------------------
\* Bounds and policy
\* ------------------------------------------------------------------------

\* SandboxOptions.maxReadBytes / maxWriteBytes, scaled down
MaxReadBytes == 6
MaxWriteBytes == 8
\* hops realpath follows before it gives up (ELOOP)
MaxSymlinkHops == 3

\* ------------------------------------------------------------------------
\* The session: one RepoTools object over one tree
\* ------------------------------------------------------------------------

VARIABLES
  dirs,          \* the directories of the file system
  files,         \* the regular files: absolute path -> content
  readGate,      \* RepoTools.readFilesThisRun
  baselinePath,  \* RepoTools.opts.baselinePath
  last,          \* the last call and the ToolResult it got
  lineDiff,      \* a call of the line diff: its arguments, its ops, their rendering
  run,           \* runAgent: maxToolCalls, toolCallsUsed, the function calls not yet handled
  calls          \* the calls of dispatch made so far and the promises they returned

vars == <<dirs, files, readGate, baselinePath, last, lineDiff, run, calls>>

\* no agent loop is running
NoRun ==
  [status |-> "none", option |-> 0, maxToolCalls |-> 0, toolCallsUsed |-> 0,
   dispatched |-> 0, functionCalls |-> <<>>, error |-> ""]

\* dispatch has not been called
NoCalls == [issued |-> <<>>, promises |-> <<>>]

\* ------------------------------------------------------------------------
\* JavaScript string primitives
\* ------------------------------------------------------------------------

NL == "\n"

MinOf(S) == CHOOSE x \in S : \A y \in S : x <= y

StartsWith(s, p) == Len(s) >= Len(p) /\ SubSeq(s, 1, Len(p)) = p

\* String.prototype.indexOf(pat, from): 0-based position or -1
RECURSIVE IndexOf(_, _, _)
IndexOf(s, pat, from) ==
  IF from + Len(pat) > Len(s) THEN -1
  ELSE IF SubSeq(s, from + 1, from + Len(pat)) = pat THEN from
  ELSE IndexOf(s, pat, from + 1)

Includes(s, pat) == IndexOf(s, pat, 0) # -1

\* String.prototype.slice(n)
Slice(s, n) == SubSeq(s, n + 1, Len(s))

IsSpace(c) == c \in {" ", "\n", "\t", "\r"}

RECURSIVE TrimStart(_)
TrimStart(s) == IF s # <<>> /\ IsSpace(Head(s)) THEN TrimStart(Tail(s)) ELSE s

RECURSIVE TrimEnd(_)
TrimEnd(s) ==
  IF s # <<>> /\ IsSpace(s[Len(s)]) THEN TrimEnd(SubSeq(s, 1, Len(s) - 1)) ELSE s

Trim(s) == TrimEnd(TrimStart(s))

\* String.prototype.split(sep) for a one-character separator
RECURSIVE Split(_, _)
Split(s, sep) ==
  LET k == IndexOf(s, <<sep>>, 0)
  IN IF k = -1 THEN <<s>>
     ELSE <<SubSeq(s, 1, k)>> \o Split(Slice(s, k + 1), sep)

\* Array.prototype.join(sep)
RECURSIVE Join(_, _)
Join(parts, sep) ==
  IF parts = <<>> THEN <<>>
  ELSE IF Len(parts) = 1 THEN parts[1]
  ELSE parts[1] \o sep \o Join(Tail(parts), sep)

UpperAZ == <<"A","B","C","D","E","F","G","H","I","J","K","L","M",
             "N","O","P","Q","R","S","T","U","V","W","X","Y","Z">>
LowerAZ == <<"a","b","c","d","e","f","g","h","i","j","k","l","m",
             "n","o","p","q","r","s","t","u","v","w","x","y","z">>

LowerTable == [c \in {UpperAZ[i] : i \in 1..26} |->
                 LowerAZ[CHOOSE i \in 1..26 : UpperAZ[i] = c]]

LowerChar(c) == IF c \in DOMAIN LowerTable THEN LowerTable[c] ELSE c

ToLowerCase(s) == [i \in 1..Len(s) |-> LowerChar(s[i])]

\* replace(/\r\n/g, "\n")
RECURSIVE ReplaceCRLF(_)
ReplaceCRLF(s) ==
  IF s = <<>> THEN <<>>
  ELSE IF Len(s) >= 2 /\ s[1] = "\r" /\ s[2] = "\n" THEN <<"\n">> \o ReplaceCRLF(Slice(s, 2))
  ELSE <<s[1]>> \o ReplaceCRLF(Tail(s))

\* split(/\r?\n/)
RECURSIVE SplitLines(_)
SplitLines(s) ==
  LET k == IndexOf(s, <<"\n">>, 0)
  IN IF k = -1 THEN <<s>>
     ELSE LET cut == IF k >= 1 /\ s[k] = "\r" THEN k - 1 ELSE k
          IN <<SubSeq(s, 1, cut)>> \o SplitLines(Slice(s, k + 1))

\* GetSubstitution of String.prototype.replace for a string pattern (no
\* capture groups): $$ is a dollar, $& the match, $` the text before the
\* match, $' the text after it; any other $ stands for itself.
RECURSIVE GetSubstitution(_, _, _, _)
GetSubstitution(repl, matched, before, after) ==
  IF repl = <<>> THEN <<>>
  ELSE IF repl[1] = "$" /\ Len(repl) >= 2 /\ repl[2] \in {"$", "&", "`", "'"}
  THEN (CASE repl[2] = "$" -> <<"$">>
          [] repl[2] = "&" -> matched
          [] repl[2] = "`" -> before
          [] repl[2] = "'" -> after)
       \o GetSubstitution(Slice(repl, 2), matched, before, after)
  ELSE <<repl[1]>> \o GetSubstitution(Tail(repl), matched, before, after)

\* String.prototype.replace(pattern: string, replacement: string): the
\* first occurrence only
StringReplace(s, pat, repl) ==
  LET k == IndexOf(s, pat, 0)
  IN IF k = -1 THEN s
     ELSE LET before == SubSeq(s, 1, k)
              after == Slice(s, k + Len(pat))
          IN before \o GetSubstitution(repl, pat, before, after) \o after

\* Buffer.byteLength(s, "utf8"); the alphabet is ASCII
ByteLength(s) == Len(s)

\* the characters of the model in the order of their code units
CodeOrder ==
  <<"\t", "\n", "\r", " ", "$", "&", "'", "+", "-", ".", "/", "?", "@">>
  \o UpperAZ \o <<"_">> \o LowerAZ

CodeTable == [c \in {CodeOrder[i] : i \in 1..Len(CodeOrder)} |->
                CHOOSE i \in 1..Len(CodeOrder) : CodeOrder[i] = c]

CharCode(c) == IF c \in DOMAIN CodeTable THEN CodeTable[c] ELSE 0

\* a < b as the default comparison of Array.prototype.sort orders strings
RECURSIVE StringLess(_, _)
StringLess(a, b) ==
  IF b = <<>> THEN FALSE
  ELSE IF a = <<>> THEN TRUE
  ELSE IF a[1] # b[1] THEN CharCode(a[1]) < CharCode(b[1])
  ELSE StringLess(Tail(a), Tail(b))

\* x put at its place in a sorted array
RECURSIVE InsertSorted(_, _)
InsertSorted(sorted, x) ==
  IF sorted = <<>> THEN <<x>>
  ELSE IF StringLess(x, Head(sorted)) THEN <<x>> \o sorted
  ELSE <<Head(sorted)>> \o InsertSorted(Tail(sorted), x)

\* Array.prototype.sort() of an array of distinct strings
RECURSIVE SortStrings(_)
SortStrings(S) ==
  IF S = {} THEN <<>>
  ELSE LET x == CHOOSE y \in S : TRUE
       IN InsertSorted(SortStrings(S \ {x}), x)

SeqToSet(q) == {q[i] : i \in 1..Len(q)}

\* Array.prototype.slice(0, n)
Take(q, n) == SubSeq(q, 1, IF n < Len(q) THEN n ELSE Len(q))

\* ------------------------------------------------------------------------
\* Names, the policy and the directory tree of the session
\* ------------------------------------------------------------------------

S_t      == <<"t">>
S_repo   == <<"r","e","p","o">>
S_a_txt  == <<"a",".","t","x","t">>
S_big    == <<"b","i","g",".","t","x","t">>
S_new    == <<"n","e","w",".","t","x","t">>
S_out    == <<"o","u","t",".","t","x","t">>
S_env    == <<".","e","n","v">>
S_git    == <<".","g","i","t">>
S_Git    == <<".","G","i","t">>
S_config == <<"c","o","n","f","i","g">>
S_id_key == <<"i","d",".","k","e","y">>
S_src    == <<"s","r","c">>
S_m_ts   == <<"m",".","t","s">>
S_x      == <<"x">>
S_nodir  == <<"n","o","d","i","r">>
S_lout   == <<"l","o","u","t">>
S_ldang  == <<"l","d","a","n","g">>
S_lin    == <<"l","i","n">>
S_ldir   == <<"l","d","i","r">>
S_tmp == <<"t", "m", "p">>
S_cache == <<"c","o","d","i","n","g","-","a","g","e","n","t","-",
             "b","a","s","e","l","i","n","e","s">>
\* crypto.createHash("sha256") of the real path of the root, in hex
S_hash == <<"h">>
S_baseline_json == <<"b","a","s","e","l","i","n","e",".","j","s","o","n">>
S_dot    == <<".">>
S_dotdot == <<".",".">>

\* SandboxOptions: the deny lists every caller in the repository passes
DenyDirs == {S_git, <<"n","o","d","e","_","m","o","d","u","l","e","s">>, <<"d","i","s","t">>}
DenyFilesExact == {S_env}
DenyExtensions == {<<".","p","e","m">>, <<".","k","e","y">>}

\* opts.repoRoot, and what surrounds it
RepoRoot == <<S_t, S_repo>>

\* symbolic links of the tree (the tools never create or remove one):
\* lout leaves the root to an existing file, ldang leaves it to a file that
\* does not exist yet, lin stays inside, ldir is a directory link to the
\* parent of the root
Links ==
  (<<S_t, S_repo, S_lout>>  :> <<S_t, S_out>>) @@
  (<<S_t, S_repo, S_ldang>> :> <<S_t, S_new>>) @@
  (<<S_t, S_repo, S_lin>>   :> <<S_t, S_repo, S_a_txt>>) @@
  (<<S_t, S_repo, S_ldir>>  :> <<S_t>>)

\* the directories before the agent starts
InitDirs ==
  {<<S_tmp>>, <<S_t>>, RepoRoot, <<S_t, S_repo, S_git>>, <<S_t, S_repo, S_src>>}

\* a file one byte above the read limit
BigContent == [i \in 1..(MaxReadBytes + 1) |-> "x"]

\* ------------------------------------------------------------------------
\* node:path
\* ------------------------------------------------------------------------

Parent(p) == SubSeq(p, 1, Len(p) - 1)
Last(p) == p[Len(p)]

\* the string of an absolute path
RECURSIVE AbsString(_)
AbsString(p) ==
  IF p = <<>> THEN <<"/">>
  ELSE IF Len(p) = 1 THEN <<"/">> \o p[1]
  ELSE AbsString(Parent(p)) \o <<"/">> \o Last(p)

RECURSIVE Normalize(_, _)
Normalize(acc, segs) ==
  IF segs = <<>> THEN acc
  ELSE LET s == Head(segs)
           acc2 == IF s = <<>> \/ s = S_dot THEN acc
                   ELSE IF s = S_dotdot
                        THEN (IF acc = <<>> THEN acc ELSE Parent(acc))
                        ELSE Append(acc, s)
       IN Normalize(acc2, Tail(segs))

\* path.resolve(base, user): an absolute user path replaces the base
PathResolve(base, user) ==
  IF StartsWith(user, <<"/">>)
  THEN Normalize(<<>>, Split(user, "/"))
  ELSE Normalize(base, Split(user, "/"))

\* path.posix.basename: the last segment, trailing slashes ignored
PosixBasename(p) ==
  LET segs == Split(p, "/")
      idx == {i \in 1..Len(segs) : segs[i] # <<>>}
  IN IF idx = {} THEN <<>> ELSE segs[CHOOSE i \in idx : \A j \in idx : j <= i]

\* path.posix.extname of a basename
PosixExtname(base) ==
  LET dots == {i \in 1..Len(base) : base[i] = "."}
  IN IF dots = {} THEN <<>>
     ELSE LET d == CHOOSE i \in dots : \A j \in dots : j <= i
              pre == SubSeq(base, 1, d - 1)
          IN IF pre = <<>> THEN <<>>
             ELSE IF (\A i \in 1..Len(pre) : pre[i] = ".") /\ d = Len(base) /\ d = 2
                  THEN <<>>
                  ELSE SubSeq(base, d, Len(base))

\* ------------------------------------------------------------------------
\* node:fs over a tree: ds the directories, fl the regular files
\* ------------------------------------------------------------------------

FsErr == [ok |-> FALSE, path |-> <<>>]
FsOk(p) == [ok |-> TRUE, path |-> p]

RECURSIVE Walk(_, _, _, _, _)
Walk(ds, fl, cur, rest, hops) ==
  IF rest = <<>> THEN FsOk(cur)
  ELSE LET nxt == Append(cur, Head(rest))
       IN IF nxt \in DOMAIN Links
          THEN (IF hops = 0 THEN FsErr
                ELSE Walk(ds, fl, <<>>, Links[nxt] \o Tail(rest), hops - 1))
          ELSE IF nxt \in ds THEN Walk(ds, fl, nxt, Tail(rest), hops)
          ELSE IF nxt \in DOMAIN fl /\ Tail(rest) = <<>> THEN FsOk(nxt)
          ELSE FsErr

\* fs.realpathSync: every symbolic link resolved; fails when a component
\* is missing, is a regular file used as a directory, or the links loop
RealpathSync(ds, fl, p) == Walk(ds, fl, <<>>, p, MaxSymlinkHops)

\* fs.existsSync follows links
ExistsSync(ds, fl, p) == RealpathSync(ds, fl, p).ok

\* fs.statSync(p).isFile() / .isDirectory() / .size, for a p that exists
StatIsFile(ds, fl, p) == RealpathSync(ds, fl, p).path \in DOMAIN fl
StatIsDirectory(ds, fl, p) == ~StatIsFile(ds, fl, p)
StatSize(ds, fl, p) ==
  IF StatIsFile(ds, fl, p) THEN ByteLength(fl[RealpathSync(ds, fl, p).path]) ELSE 0

\* fs.lstatSync(p).isDirectory(): the entry itself, links not followed
LstatIsDirectory(ds, fl, p) == p \notin DOMAIN Links /\ p \in ds

\* where open(p, O_CREAT) lands: the parent must resolve to a directory; a
\* final symbolic link is followed, also when its target does not exist
RECURSIVE OpenForWrite(_, _, _, _)
OpenForWrite(ds, fl, p, hops) ==
  IF p = <<>> THEN FsErr
  ELSE LET par == RealpathSync(ds, fl, Parent(p))
       IN IF ~par.ok \/ par.path \in DOMAIN fl THEN FsErr
          ELSE LET q == Append(par.path, Last(p))
               IN IF q \in DOMAIN Links
                  THEN (IF hops = 0 THEN FsErr ELSE OpenForWrite(ds, fl, Links[q], hops - 1))
                  ELSE IF q \in ds THEN FsErr
                  ELSE FsOk(q)

\* the files after a write that lands at t
WriteAt(fl, t, content) ==
  IF ~t.ok THEN [ok |-> FALSE, files |-> fl]
  ELSE [ok |-> TRUE,
        files |-> [q \in (DOMAIN fl) \cup {t.path} |-> IF q = t.path THEN content ELSE fl[q]]]

\* fs.writeFileSync(p, content): the files afterwards, or the error
WriteFileSync(ds, fl, p, content) == WriteAt(fl, OpenForWrite(ds, fl, p, MaxSymlinkHops), content)

\* fs.unlinkSync(p) of an existing regular file
UnlinkSync(fl, p) == [q \in (DOMAIN fl) \ {p} |-> fl[q]]

\* the ancestors of p that mkdir -p would have to create
MissingDirs(ds, p) == {SubSeq(p, 1, k) : k \in 1..Len(p)} \ ds

\* fs.mkdirSync(p, {recursive: true}): fails when p or one of its
\* ancestors is a regular file
MkdirRecursive(ds, fl, p) ==
  LET real == RealpathSync(ds, fl, p)
  IN IF real.ok
     THEN (IF real.path \in ds \/ real.path = <<>>
           THEN [ok |-> TRUE, dirs |-> ds]
           ELSE [ok |-> FALSE, dirs |-> ds])
     ELSE IF \E k \in 1..Len(p) : SubSeq(p, 1, k) \in DOMAIN fl \/ SubSeq(p, 1, k) \in DOMAIN Links
          THEN [ok |-> FALSE, dirs |-> ds]
          ELSE [ok |-> TRUE, dirs |-> ds \cup MissingDirs(ds, p)]

\* ------------------------------------------------------------------------
\* security.ts
\* ------------------------------------------------------------------------

\* a user path that is not a string (undefined, a number, ...)
NotAString == <<"#not-a-string">>
\* the character U+0000
NUL == "#nul"

\* replace(/^\/+/, "")
RECURSIVE StripLeadingSlashes(_)
StripLeadingSlashes(s) ==
  IF s # <<>> /\ Head(s) = "/" THEN StripLeadingSlashes(Tail(s)) ELSE s

\* the lists of the policy, lower-cased as isDeniedPath lower-cases them
DenyFilesLower == {ToLowerCase(x) : x \in DenyFilesExact}
DenyExtsLower == {ToLowerCase(x) : x \in DenyExtensions}
DenyDirsLower == {ToLowerCase(x) : x \in DenyDirs}

\* the three tests of isDeniedPath on the lower-cased path
DeniedLower(p, base) ==
  \/ base \in DenyFilesLower
  \/ (PosixExtname(base) # <<>> /\ PosixExtname(base) \in DenyExtsLower)
  \/ \E seg \in SeqToSet(Split(p, "/")) : seg \in DenyDirsLower

isDeniedPath(relPosixPath) ==
  DeniedLower(ToLowerCase(StripLeadingSlashes(relPosixPath)),
              PosixBasename(ToLowerCase(StripLeadingSlashes(relPosixPath))))

ResolveFail(kind) == [ok |-> FALSE, err |-> kind, absPath |-> <<>>, relPath |-> <<>>]

\* a realCandidateAbs that keeps the candidate when its parent is missing
RealCandidate_AnyParent(ds, fl, candidateAbs) ==
  LET real == RealpathSync(ds, fl, candidateAbs)
  IN IF real.ok THEN real
     ELSE IF candidateAbs = <<>> THEN FsErr
     ELSE LET realParent == RealpathSync(ds, fl, Parent(candidateAbs))
          IN IF ~realParent.ok THEN FsOk(candidateAbs)
             ELSE FsOk(Append(realParent.path, Last(candidateAbs)))

\* realCandidateAbs of resolveInRepo: the real path of the candidate or,
\* when that fails, the real path of its parent with the leaf re-appended
RealCandidate(ds, fl, candidateAbs) ==
  LET real == RealpathSync(ds, fl, candidateAbs)
  IN IF real.ok THEN real
     ELSE IF candidateAbs = <<>> THEN FsErr
     ELSE LET realParent == RealpathSync(ds, fl, Parent(candidateAbs))
          IN IF ~realParent.ok THEN FsErr
             ELSE FsOk(Append(realParent.path, Last(candidateAbs)))

\* the end of resolveInRepo: the checks on the relative path
ResolveRelative(ds, fl, realCandidateAbs, relPosix) ==
  IF relPosix = <<>> \/ Trim(relPosix) = <<>> THEN ResolveFail("InvalidPath")
  ELSE IF ExistsSync(ds, fl, realCandidateAbs) /\ LstatIsDirectory(ds, fl, realCandidateAbs)
  THEN ResolveFail("InvalidPath")
  ELSE IF isDeniedPath(relPosix) THEN ResolveFail("AccessDenied")
  ELSE [ok |-> TRUE, err |-> "", absPath |-> realCandidateAbs, relPath |-> relPosix]

\* the middle of resolveInRepo: the containment test. path.relative of a
\* path that starts with the root and a separator is the rest of it
ResolveCandidate(ds, fl, cand, mustStart) ==
  IF ~cand.ok THEN ResolveFail("InvalidPath")
  ELSE IF ~StartsWith(AbsString(cand.path), mustStart) THEN ResolveFail("PathTraversal")
  ELSE ResolveRelative(ds, fl, cand.path, Slice(AbsString(cand.path), Len(mustStart)))

ResolveTrimmed(ds, fl, userPathTrimmed, realRepoAbs) ==
  ResolveCandidate(ds, fl,
                   RealCandidate(ds, fl, PathResolve(realRepoAbs, userPathTrimmed)),
                   AbsString(realRepoAbs) \o <<"/">>)

resolveInRepo(ds, fl, userPath) ==
  IF userPath = NotAString THEN ResolveFail("InvalidPath")
  ELSE IF \E i \in 1..Len(userPath) : userPath[i] = NUL THEN ResolveFail("InvalidPath")
  ELSE IF Trim(userPath) = <<>> THEN ResolveFail("InvalidPath")
  ELSE ResolveTrimmed(ds, fl, Trim(userPath), RealpathSync(ds, fl, RepoRoot).path)

\* ensureParentDirExists(fileAbsPath)
ensureParentDirExists(ds, fl, fileAbsPath) == MkdirRecursive(ds, fl, Parent(fileAbsPath))

\* the root-relative POSIX path of an absolute path below the root
RelString(abs) == Slice(AbsString(abs), Len(AbsString(RepoRoot)) + 1)

\* fs.readdirSync(dirAbs): the names of the entries, listed by name
Readdir(ds, fl, dirAbs) ==
  SortStrings({Last(p) : p \in {q \in ds \cup DOMAIN fl \cup DOMAIN Links :
                                  Len(q) = Len(dirAbs) + 1 /\ Parent(q) = dirAbs}})

RECURSIVE WalkEntries(_, _, _, _, _, _)
\* walk(dirAbs) of listFilesRecursive, with the results found so far
WalkDir(ds, fl, dirAbs, results, maxFiles) ==
  IF Len(results) >= maxFiles THEN results
  ELSE WalkEntries(ds, fl, dirAbs, Readdir(ds, fl, dirAbs), results, maxFiles)

\* a walk that reports a symbolic link to a file as a file
WalkEntries_FollowLinks(ds, fl, dirAbs, entries, results, maxFiles) ==
  IF entries = <<>> \/ Len(results) >= maxFiles THEN results
  ELSE
    LET childAbs == Append(dirAbs, Head(entries))
        rel == RelString(childAbs)
        childReal == RealpathSync(ds, fl, childAbs)
        mustStart == AbsString(RealpathSync(ds, fl, RepoRoot).path) \o <<"/">>
        found ==
          IF rel = <<>> \/ isDeniedPath(rel) THEN results
          ELSE IF childAbs \in DOMAIN Links
          THEN (IF childReal.ok /\ childReal.path \in DOMAIN fl
                THEN Append(results, rel)
                ELSE results)
          ELSE IF childAbs \in ds
          THEN (IF childReal.ok /\ StartsWith(AbsString(childReal.path), mustStart)
                THEN WalkDir(ds, fl, childAbs, results, maxFiles)
                ELSE results)
          ELSE IF childAbs \in DOMAIN fl THEN Append(results, rel)
          ELSE results
    IN WalkEntries(ds, fl, dirAbs, Tail(entries), found, maxFiles)
\* the for loop of walk over the entries that are left
WalkEntries(ds, fl, dirAbs, entries, results, maxFiles) ==
  IF entries = <<>> \/ Len(results) >= maxFiles THEN results
  ELSE
    LET childAbs == Append(dirAbs, Head(entries))
        rel == RelString(childAbs)
        childReal == RealpathSync(ds, fl, childAbs)
        mustStart == AbsString(RealpathSync(ds, fl, RepoRoot).path) \o <<"/">>
        found ==
          IF rel = <<>> \/ isDeniedPath(rel) THEN results
          ELSE IF childAbs \in DOMAIN Links THEN results
          ELSE IF childAbs \in ds
          THEN (IF childReal.ok /\ StartsWith(AbsString(childReal.path), mustStart)
                THEN WalkDir(ds, fl, childAbs, results, maxFiles)
                ELSE results)
          ELSE IF childAbs \in DOMAIN fl THEN Append(results, rel)
          ELSE results
    IN WalkEntries(ds, fl, dirAbs, Tail(entries), found, maxFiles)

\* a lister that stops one file after maxFiles
listFilesRecursive_OneMore(ds, fl, maxFiles) ==
  SortStrings(SeqToSet(WalkDir(ds, fl, RepoRoot, <<>>, maxFiles + 1)))
listFilesRecursive(ds, fl, maxFiles) ==
  SortStrings(SeqToSet(WalkDir(ds, fl, RepoRoot, <<>>, maxFiles)))

\* ------------------------------------------------------------------------
\* tools.ts: RepoTools
\* ------------------------------------------------------------------------

\* what a tool method leaves behind: the value it returns, or the error it
\* throws (n: the number quoted in the message), with the tree and
\* readFilesThisRun as they are at that moment
Return(ds, fl, g, out) ==
  [thrown |-> FALSE, err |-> "", n |-> 0, dirs |-> ds, files |-> fl, gate |-> g, out |-> out,
   planned |-> 0]
Throw(kind, n, ds, fl, g) ==
  [thrown |-> TRUE, err |-> kind, n |-> n, dirs |-> ds, files |-> fl, gate |-> g, out |-> <<>>,
   planned |-> 0]

\* content: string | null
Null == <<"#null">>

\* the read-before-mutate conditions of writeFile, deleteFile and applyPatch
WriteNeedsRead_Never(exists, relPath, g) == FALSE
WriteNeedsRead(exists, relPath, g) == exists /\ relPath \notin g

DeleteNeedsRead_Never(relPath, g) == FALSE
DeleteNeedsRead(relPath, g) == relPath \notin g

PatchNeedsRead(exists, relPath, g) == exists /\ relPath \notin g

\* fs.readFileSync(absPath, "utf8") of a path that leads to a regular file
ReadFileSync(ds, fl, absPath) == fl[RealpathSync(ds, fl, absPath).path]

\* a read that marks the path before it looks at the size
ReadStat_MarkFirst(ds, fl, g, r, size) ==
  IF size > MaxReadBytes THEN Throw("TooLarge", size, ds, fl, g \cup {r.relPath})
  ELSE Return(ds, fl, g \cup {r.relPath},
              [path |-> r.relPath, bytes |-> size, content |-> ReadFileSync(ds, fl, r.absPath)])

ReadStat(ds, fl, g, r, size) ==
  IF size > MaxReadBytes THEN Throw("TooLarge", size, ds, fl, g)
  ELSE Return(ds, fl, g \cup {r.relPath},
              [path |-> r.relPath, bytes |-> size, content |-> ReadFileSync(ds, fl, r.absPath)])

ReadResolved(ds, fl, g, r) ==
  IF ~r.ok THEN Throw(r.err, 0, ds, fl, g)
  ELSE IF ~ExistsSync(ds, fl, r.absPath) THEN Throw("NotFound", 0, ds, fl, g)
  ELSE IF ~StatIsFile(ds, fl, r.absPath) THEN Throw("NotAFile", 0, ds, fl, g)
  ELSE ReadStat(ds, fl, g, r, StatSize(ds, fl, r.absPath))

readFile(ds, fl, g, args) == ReadResolved(ds, fl, g, resolveInRepo(ds, fl, args.path))

BatchEntry(relPath, bytes, content, note) ==
  [path |-> relPath, bytes |-> bytes, content |-> content, note |-> note,
   read |-> content # Null]

BatchStat(ds, fl, r, size) ==
  IF size > MaxReadBytes THEN BatchEntry(r.relPath, size, Null, "too_large")
  ELSE BatchEntry(r.relPath, size, ReadFileSync(ds, fl, r.absPath), "")

BatchResolved(ds, fl, p, r) ==
  IF ~r.ok THEN BatchEntry(p, 0, Null, r.err)
  ELSE IF ~ExistsSync(ds, fl, r.absPath) THEN BatchEntry(r.relPath, 0, Null, "not_found")
  ELSE IF ~StatIsFile(ds, fl, r.absPath) THEN BatchEntry(r.relPath, 0, Null, "not_file")
  ELSE BatchStat(ds, fl, r, StatSize(ds, fl, r.absPath))

\* one turn of the loop of readFilesBatch; read: the turn marked the path
BatchItem(ds, fl, p) == BatchResolved(ds, fl, p, resolveInRepo(ds, fl, p))

MaxBatchPaths == 50

\* a return that marks every path of the answer
BatchReturn_MarkAll(ds, fl, g, out) ==
  Return(ds, fl, g \cup {out[i].path : i \in 1..Len(out)}, out)

BatchReturn(ds, fl, g, out) ==
  Return(ds, fl, g \cup {out[i].path : i \in {j \in 1..Len(out) : out[j].read}}, out)

readFilesBatch(ds, fl, g, args) ==
  IF Len(args.paths) = 0 THEN Throw("PathsRequired", 0, ds, fl, g)
  ELSE IF Len(args.paths) > MaxBatchPaths THEN Throw("TooManyPaths", Len(args.paths), ds, fl, g)
  ELSE BatchReturn(ds, fl, g, [i \in 1..Len(args.paths) |-> BatchItem(ds, fl, args.paths[i])])

\* a write that marks the path it wrote as read
WriteDone_Marks(ds, fl, g, r, content, w) ==
  IF ~w.ok THEN Throw("ENOENT", 0, ds, fl, g)
  ELSE Return(ds, w.files, g \cup {r.relPath}, [path |-> r.relPath, bytes |-> ByteLength(content)])

WriteDone(ds, fl, g, r, content, w) ==
  IF ~w.ok THEN Throw("ENOENT", 0, ds, fl, g)
  ELSE Return(ds, w.files, g, [path |-> r.relPath, bytes |-> ByteLength(content)])

WriteMade(ds, fl, g, r, content, mk) ==
  IF ~mk.ok THEN Throw("EEXIST", 0, ds, fl, g)
  ELSE WriteDone(mk.dirs, fl, g, r, content, WriteFileSync(mk.dirs, fl, r.absPath, content))

WriteResolved(ds, fl, g, r, content) ==
  IF ~r.ok THEN Throw(r.err, 0, ds, fl, g)
  ELSE IF ByteLength(content) > MaxWriteBytes
  THEN Throw("TooLarge", ByteLength(content), ds, fl, g)
  ELSE IF WriteNeedsRead(ExistsSync(ds, fl, r.absPath), r.relPath, g)
  THEN Throw("ReadRequired", 0, ds, fl, g)
  ELSE WriteMade(ds, fl, g, r, content, ensureParentDirExists(ds, fl, r.absPath))

writeFile(ds, fl, g, args) ==
  WriteResolved(ds, fl, g, resolveInRepo(ds, fl, args.path), args.content)

\* a deleteFile that takes the path out of readFilesThisRun
DeleteResolved_Forget(ds, fl, g, r) ==
  IF ~r.ok THEN Throw(r.err, 0, ds, fl, g)
  ELSE IF ~ExistsSync(ds, fl, r.absPath)
  THEN Return(ds, fl, g, [path |-> r.relPath, deleted |-> FALSE, reason |-> "not_found"])
  ELSE IF ~StatIsFile(ds, fl, r.absPath) THEN Throw("NotAFile", 0, ds, fl, g)
  ELSE IF DeleteNeedsRead(r.relPath, g) THEN Throw("ReadRequired", 0, ds, fl, g)
  ELSE Return(ds, UnlinkSync(fl, r.absPath), g \ {r.relPath},
              [path |-> r.relPath, deleted |-> TRUE, reason |-> ""])
DeleteResolved(ds, fl, g, r) ==
  IF ~r.ok THEN Throw(r.err, 0, ds, fl, g)
  ELSE IF ~ExistsSync(ds, fl, r.absPath)
  THEN Return(ds, fl, g, [path |-> r.relPath, deleted |-> FALSE, reason |-> "not_found"])
  ELSE IF ~StatIsFile(ds, fl, r.absPath) THEN Throw("NotAFile", 0, ds, fl, g)
  ELSE IF DeleteNeedsRead(r.relPath, g) THEN Throw("ReadRequired", 0, ds, fl, g)
  ELSE Return(ds, UnlinkSync(fl, r.absPath), g,
              [path |-> r.relPath, deleted |-> TRUE, reason |-> ""])

deleteFile(ds, fl, g, args) == DeleteResolved(ds, fl, g, resolveInRepo(ds, fl, args.path))

\* --- apply_patch: parsing ---

HeaderA == <<"-","-","-"," ","a","/">>
HeaderB == <<"+","+","+"," ","b","/">>

ParseFail(kind) == [ok |-> FALSE, err |-> kind, sections |-> <<>>]

\* a body that passes over the lines it cannot read
RECURSIVE ParseBody_SkipOthers(_, _)
ParseBody_SkipOthers(lines, i) ==
  IF i > Len(lines) \/ StartsWith(lines[i], HeaderA)
  THEN [ok |-> TRUE, body |-> <<>>, next |-> i]
  ELSE LET rest == ParseBody_SkipOthers(lines, i + 1)
       IN IF StartsWith(lines[i], <<" ">>) \/ StartsWith(lines[i], <<"+">>)
             \/ StartsWith(lines[i], <<"-">>)
          THEN [rest EXCEPT !.body = <<lines[i]>> \o @]
          ELSE rest

\* the body lines from line i up to the next '--- a/' header or the end
RECURSIVE ParseBody(_, _)
ParseBody(lines, i) ==
  IF i > Len(lines) \/ StartsWith(lines[i], HeaderA)
  THEN [ok |-> TRUE, body |-> <<>>, next |-> i]
  ELSE IF StartsWith(lines[i], <<" ">>) \/ StartsWith(lines[i], <<"+">>)
          \/ StartsWith(lines[i], <<"-">>)
  THEN LET rest == ParseBody(lines, i + 1)
       IN IF rest.ok THEN [rest EXCEPT !.body = <<lines[i]>> \o @] ELSE rest
  ELSE [ok |-> FALSE, body |-> <<>>, next |-> i]

\* the while loop over the lines of the patch, from line i on
RECURSIVE ParseSections(_, _)
ParseSections(lines, i) ==
  IF i > Len(lines) THEN [ok |-> TRUE, err |-> "", sections |-> <<>>]
  ELSE IF StartsWith(lines[i], HeaderA)
  THEN LET next == IF i + 1 <= Len(lines) THEN lines[i + 1] ELSE <<>>
       IN IF ~StartsWith(next, HeaderB) THEN ParseFail("InvalidPatchFormat")
          ELSE
            LET pathA == Trim(Slice(lines[i], 6))
                pathB == Trim(Slice(next, 6))
            IN IF pathA = <<>> \/ pathB = <<>> THEN ParseFail("InvalidPatchFormat")
               ELSE
                 LET b == ParseBody(lines, i + 2)
                 IN IF ~b.ok THEN ParseFail("InvalidPatchLine")
                    ELSE LET rest == ParseSections(lines, b.next)
                         IN IF ~rest.ok THEN rest
                            ELSE [rest EXCEPT !.sections =
                                    <<[relPath |-> pathB, lines |-> b.body]>> \o @]
  ELSE ParseSections(lines, i + 1)

\* baseFromPatch / afterFromPatch of a section body
BaseFromPatch(body) ==
  LET keep == SelectSeq(body, LAMBDA l : l[1] = " " \/ l[1] = "-")
  IN [i \in 1..Len(keep) |-> Slice(keep[i], 1)]
AfterFromPatch(body) ==
  LET keep == SelectSeq(body, LAMBDA l : l[1] = " " \/ l[1] = "+")
  IN [i \in 1..Len(keep) |-> Slice(keep[i], 1)]

\* --- apply_patch: first pass ---

\* the while loop that counts the occurrences of baseBlock from idx on
RECURSIVE CountOccurrences(_, _, _)
CountOccurrences(content, block, idx) ==
  LET found == IndexOf(content, block, idx)
  IN IF found = -1 THEN 0
     ELSE 1 + CountOccurrences(content, block, found + Len(block))

\* the replacement of contextual mode
ContextualReplace(beforeContent, baseBlock, afterBlock) ==
  StringReplace(beforeContent, baseBlock, afterBlock)

PlanFail(kind, n) == [ok |-> FALSE, err |-> kind, n |-> n]

\* a first pass that lets any base fragment pass for a new file
PlanChecked_AnyBase(g, r, exists, beforeContent, whole, hasBase, baseStr, count, newContent) ==
  IF PatchNeedsRead(exists, r.relPath, g) THEN PlanFail("ReadRequired", 0)
  ELSE IF exists /\ ~whole /\ count # 1 THEN PlanFail("AmbiguousFragment", count)
  ELSE IF ByteLength(newContent) > MaxWriteBytes
  THEN PlanFail("TooLarge", ByteLength(newContent))
  ELSE [ok |-> TRUE, err |-> "", n |-> 0,
        relPath |-> r.relPath, absPath |-> r.absPath, existedBefore |-> exists,
        beforeBytes |-> ByteLength(beforeContent), afterBytes |-> ByteLength(newContent),
        newContent |-> newContent]
\* a first pass that takes the first occurrence when there are several
PlanChecked_FirstMatch(g, r, exists, beforeContent, whole, hasBase, baseStr, count, newContent) ==
  IF PatchNeedsRead(exists, r.relPath, g) THEN PlanFail("ReadRequired", 0)
  ELSE IF exists /\ ~whole /\ count = 0 THEN PlanFail("AmbiguousFragment", count)
  ELSE IF ~exists /\ hasBase /\ Trim(baseStr) # <<>> THEN PlanFail("NewFileBaseNotEmpty", 0)
  ELSE IF ByteLength(newContent) > MaxWriteBytes
  THEN PlanFail("TooLarge", ByteLength(newContent))
  ELSE [ok |-> TRUE, err |-> "", n |-> 0,
        relPath |-> r.relPath, absPath |-> r.absPath, existedBefore |-> exists,
        beforeBytes |-> ByteLength(beforeContent), afterBytes |-> ByteLength(newContent),
        newContent |-> newContent]
\* the checks of the first pass and the planned write, once the contents
\* are computed
PlanChecked(g, r, exists, beforeContent, whole, hasBase, baseStr, count, newContent) ==
  IF PatchNeedsRead(exists, r.relPath, g) THEN PlanFail("ReadRequired", 0)
  ELSE IF exists /\ ~whole /\ count # 1 THEN PlanFail("AmbiguousFragment", count)
  ELSE IF ~exists /\ hasBase /\ Trim(baseStr) # <<>> THEN PlanFail("NewFileBaseNotEmpty", 0)
  ELSE IF ByteLength(newContent) > MaxWriteBytes
  THEN PlanFail("TooLarge", ByteLength(newContent))
  ELSE [ok |-> TRUE, err |-> "", n |-> 0,
        relPath |-> r.relPath, absPath |-> r.absPath, existedBefore |-> exists,
        beforeBytes |-> ByteLength(beforeContent), afterBytes |-> ByteLength(newContent),
        newContent |-> newContent]

\* a first pass that knows the contextual mode only
PlanContent_AlwaysContextual(g, r, exists, beforeContent, curStr, hasBase, baseStr, afterStr) ==
  PlanChecked(g, r, exists, beforeContent, FALSE, hasBase, baseStr,
              CountOccurrences(beforeContent, baseStr \o <<"\n">>, 0),
              IF exists
              THEN ContextualReplace(beforeContent, baseStr \o <<"\n">>, afterStr \o <<"\n">>)
              ELSE afterStr)

\* the new content of a section: the after fragment for a new file or an
\* exact match of the whole file, the replacement otherwise
PlanContent(g, r, exists, beforeContent, curStr, hasBase, baseStr, afterStr) ==
  PlanChecked(g, r, exists, beforeContent, curStr = baseStr, hasBase, baseStr,
              CountOccurrences(beforeContent, baseStr \o <<"\n">>, 0),
              IF exists /\ curStr # baseStr
              THEN ContextualReplace(beforeContent, baseStr \o <<"\n">>, afterStr \o <<"\n">>)
              ELSE afterStr)

PlanExisting(g, r, sec, exists, beforeContent) ==
  PlanContent(g, r, exists, beforeContent, Join(SplitLines(beforeContent), <<"\n">>),
              Len(BaseFromPatch(sec.lines)) > 0,
              Join(BaseFromPatch(sec.lines), <<"\n">>),
              Join(AfterFromPatch(sec.lines), <<"\n">>))

PlanResolved(ds, fl, g, sec, r, exists) ==
  PlanExisting(g, r, sec, exists,
               IF exists THEN ReadFileSync(ds, fl, r.absPath) ELSE <<>>)

\* one turn of the first pass: the planned write of a section, or the error
PlanTarget(ds, fl, g, sec, r) ==
  IF ~r.ok THEN PlanFail(r.err, 0)
  ELSE PlanResolved(ds, fl, g, sec, r,
                    ExistsSync(ds, fl, r.absPath) /\ StatIsFile(ds, fl, r.absPath))

PlanSection(ds, fl, g, sec) == PlanTarget(ds, fl, g, sec, resolveInRepo(ds, fl, sec.relPath))

\* --- apply_patch: second pass ---

\* the writes from plannedWrites[i] on; a write that throws ends the pass
\* with the earlier writes done
RECURSIVE CommitWrites(_, _, _, _)

CommitWritten(ds, fl, planned, i, wr) ==
  IF ~wr.ok THEN [ok |-> FALSE, err |-> "ENOENT", dirs |-> ds, files |-> fl]
  ELSE CommitWrites(ds, wr.files, planned, i + 1)

CommitMade(ds, fl, planned, i, mk) ==
  IF ~mk.ok THEN [ok |-> FALSE, err |-> "EEXIST", dirs |-> ds, files |-> fl]
  ELSE CommitWritten(mk.dirs, fl, planned, i,
                     WriteFileSync(mk.dirs, fl, planned[i].absPath, planned[i].newContent))

CommitWrites(ds, fl, planned, i) ==
  IF i > Len(planned) THEN [ok |-> TRUE, err |-> "", dirs |-> ds, files |-> fl]
  ELSE CommitMade(ds, fl, planned, i, ensureParentDirExists(ds, fl, planned[i].absPath))

PatchStatus(w) ==
  IF w.existedBefore
  THEN (IF w.beforeBytes = w.afterBytes THEN "unchanged" ELSE "modified")
  ELSE "created"

\* the value applyPatch returns: one entry per planned write
PatchReport(plans) ==
  [i \in 1..Len(plans) |->
     [path |-> plans[i].relPath, existed_before |-> plans[i].existedBefore,
      before_bytes |-> plans[i].beforeBytes, after_bytes |-> plans[i].afterBytes,
      status |-> PatchStatus(plans[i])]]

\* the second pass and the return
ApplyWrites(g, plans, done) ==
  IF ~done.ok
  THEN [Throw(done.err, 0, done.dirs, done.files, g) EXCEPT !.planned = Len(plans)]
  ELSE Return(done.dirs, done.files, g, [files |-> PatchReport(plans)])

\* a single pass: the sections before the one that fails are written
ApplyPlans_WriteAsValidated(ds, fl, g, plans, bad) ==
  IF bad # {}
  THEN [Throw(plans[MinOf(bad)].err, plans[MinOf(bad)].n,
              CommitWrites(ds, fl, SubSeq(plans, 1, MinOf(bad) - 1), 1).dirs,
              CommitWrites(ds, fl, SubSeq(plans, 1, MinOf(bad) - 1), 1).files, g)
          EXCEPT !.planned = MinOf(bad) - 1]
  ELSE ApplyWrites(g, plans, CommitWrites(ds, fl, plans, 1))
\* the first pass: the first section that fails ends the call
ApplyPlans(ds, fl, g, plans, bad) ==
  IF bad # {}
  THEN [Throw(plans[MinOf(bad)].err, plans[MinOf(bad)].n, ds, fl, g)
          EXCEPT !.planned = MinOf(bad) - 1]
  ELSE ApplyWrites(g, plans, CommitWrites(ds, fl, plans, 1))

ApplySections(ds, fl, g, plans) ==
  ApplyPlans(ds, fl, g, plans, {i \in 1..Len(plans) : ~plans[i].ok})

\* a first pass that plans each section against the files as the sections
\* before it would leave them
RECURSIVE PlansInTurn(_, _, _, _, _)
PlansInTurn(ds, fl, g, sections, i) ==
  IF i > Len(sections) THEN <<>>
  ELSE LET p == PlanSection(ds, fl, g, sections[i])
       IN <<p>> \o PlansInTurn(ds, IF p.ok THEN CommitWrites(ds, fl, <<p>>, 1).files ELSE fl,
                               g, sections, i + 1)

ApplyParsed_InTurn(ds, fl, g, parsed) ==
  IF ~parsed.ok THEN Throw(parsed.err, 0, ds, fl, g)
  ELSE IF Len(parsed.sections) = 0 THEN Throw("InvalidPatchFormat", 0, ds, fl, g)
  ELSE ApplySections(ds, fl, g, PlansInTurn(ds, fl, g, parsed.sections, 1))

ApplyParsed(ds, fl, g, parsed) ==
  IF ~parsed.ok THEN Throw(parsed.err, 0, ds, fl, g)
  ELSE IF Len(parsed.sections) = 0 THEN Throw("InvalidPatchFormat", 0, ds, fl, g)
  ELSE ApplySections(ds, fl, g, [i \in 1..Len(parsed.sections) |->
                                  PlanSection(ds, fl, g, parsed.sections[i])])

applyPatch(ds, fl, g, args) ==
  IF Trim(args.patch) = <<>> THEN Throw("PatchRequired", 0, ds, fl, g)
  ELSE ApplyParsed(ds, fl, g, ParseSections(Split(ReplaceCRLF(args.patch), "\n"), 1))

\* --- list_files, stat_files_batch, search_in_files ---

\* Math.min(Math.max(v, lo), hi)
Clamp(v, lo, hi) == LET a == IF v > lo THEN v ELSE lo IN IF a < hi THEN a ELSE hi

\* Array.prototype.filter((p) => prefix ? p.startsWith(prefix) : true)
FilterPrefix(q, prefix) ==
  IF prefix = <<>> THEN q ELSE SelectSeq(q, LAMBDA p : StartsWith(p, prefix))

ListerMaxFiles == 5000
DefaultListLimit == 2000
MaxListLimit == 5000

ListOut(ds, fl, g, out, limit) ==
  Return(ds, fl, g, [files |-> Take(out, limit), total |-> Len(out)])

listFiles(ds, fl, g, args) ==
  ListOut(ds, fl, g,
          FilterPrefix(listFilesRecursive(ds, fl, ListerMaxFiles), Trim(args.prefix)),
          Clamp(args.limit, 1, MaxListLimit))

StatEntry(relPath, exists, isFile, bytes) ==
  [path |-> relPath, exists |-> exists, is_file |-> isFile, bytes |-> bytes]

StatResolved(ds, fl, p, r) ==
  IF ~r.ok THEN StatEntry(p, FALSE, FALSE, 0)
  ELSE IF ~ExistsSync(ds, fl, r.absPath) THEN StatEntry(r.relPath, FALSE, FALSE, 0)
  ELSE StatEntry(r.relPath, TRUE, StatIsFile(ds, fl, r.absPath), StatSize(ds, fl, r.absPath))

\* one turn of the loop of statFilesBatch
StatItem(ds, fl, p) == StatResolved(ds, fl, p, resolveInRepo(ds, fl, p))

MaxStatPaths == 200

statFilesBatch(ds, fl, g, args) ==
  IF Len(args.paths) = 0 THEN Throw("PathsRequired", 0, ds, fl, g)
  ELSE IF Len(args.paths) > MaxStatPaths THEN Throw("TooManyPaths", Len(args.paths), ds, fl, g)
  ELSE Return(ds, fl, g, [i \in 1..Len(args.paths) |-> StatItem(ds, fl, args.paths[i])])

MatchTextLimit == 400

\* the inner loop of searchInFiles: the lines of one file from line i on
RECURSIVE SearchLines(_, _, _, _, _, _)
SearchLines(relPath, lines, i, query, matches, limitMatches) ==
  IF i > Len(lines) \/ Len(matches) >= limitMatches THEN matches
  ELSE SearchLines(relPath, lines, i + 1, query,
                   IF Includes(lines[i], query)
                   THEN Append(matches, [path |-> relPath, line |-> i,
                                         text |-> Take(lines[i], MatchTextLimit)])
                   ELSE matches,
                   limitMatches)

\* the body of the outer loop for a file whose content was read
SearchContent(relPath, content, query, matches, limitMatches) ==
  IF ~Includes(content, query) THEN matches
  ELSE SearchLines(relPath, SplitLines(content), 1, query, matches, limitMatches)

\* the body of the outer loop of searchInFiles: the matches after one file
SearchOne(ds, fl, r, query, matches, limitMatches) ==
  IF ~r.ok THEN matches
  ELSE IF ~ExistsSync(ds, fl, r.absPath) THEN matches
  ELSE IF ~StatIsFile(ds, fl, r.absPath) THEN matches
  ELSE IF StatSize(ds, fl, r.absPath) > MaxReadBytes THEN matches
  ELSE SearchContent(r.relPath, ReadFileSync(ds, fl, r.absPath), query, matches, limitMatches)

\* the outer loop of searchInFiles over the files that are left
RECURSIVE SearchFiles(_, _, _, _, _, _)
SearchFiles(ds, fl, all, query, matches, limitMatches) ==
  IF all = <<>> \/ Len(matches) >= limitMatches THEN matches
  ELSE SearchFiles(ds, fl, Tail(all), query,
                   SearchOne(ds, fl, resolveInRepo(ds, fl, Head(all)), query, matches,
                             limitMatches),
                   limitMatches)

DefaultLimitFiles == 800
MaxLimitFiles == 2000
DefaultLimitMatches == 200
MaxLimitMatches == 2000

SearchAll(ds, fl, g, query, all, limitMatches) ==
  Return(ds, fl, g,
         [query |-> query, matches |-> SearchFiles(ds, fl, all, query, <<>>, limitMatches),
          scanned_files |-> Len(all)])

searchInFiles(ds, fl, g, args) ==
  IF args.query = <<>> THEN Throw("QueryRequired", 0, ds, fl, g)
  ELSE SearchAll(ds, fl, g, args.query,
                 Take(FilterPrefix(listFilesRecursive(ds, fl, ListerMaxFiles), Trim(args.prefix)),
                      Clamp(args.limit_files, 1, MaxLimitFiles)),
                 Clamp(args.limit_matches, 1, MaxLimitMatches))

\* --- the line diff ---

\* the table dp of diffLines: dp[i][j] is the length of a longest common
\* subsequence of a[i..] and b[j..] (0-based, as in the code)
\* a table that knows of no common line
LcsTable_Zero(a, b) == [i \in 0..Len(a), j \in 0..Len(b) |-> 0]

LcsTable(a, b) ==
  LET m == Len(a)
      n == Len(b)
      dp[i \in 0..m, j \in 0..n] ==
        IF i = m \/ j = n THEN 0
        ELSE IF a[i + 1] = b[j + 1] THEN dp[i + 1, j + 1] + 1
        ELSE IF dp[i + 1, j] >= dp[i, j + 1] THEN dp[i + 1, j] ELSE dp[i, j + 1]
  IN dp

\* a pushOp that opens a new run for every line
pushOp_AlwaysNew(ops, type, line) == Append(ops, [type |-> type, lines |-> <<line>>])

pushOp(ops, type, line) ==
  IF ops # <<>> /\ ops[Len(ops)].type = type
  THEN [ops EXCEPT ![Len(ops)].lines = Append(@, line)]
  ELSE Append(ops, [type |-> type, lines |-> <<line>>])

\* a loop that pushes the lines left on one side, all with one type:
\* pushOp puts the first into the last run or a new one, and every
\* further line then finds that run last
PushRest(pushed, rest) ==
  [pushed EXCEPT ![Len(pushed)].lines = @ \o rest]
PushLeft(ops, type, lines) ==
  IF lines = <<>> THEN ops ELSE PushRest(pushOp(ops, type, Head(lines)), Tail(lines))

\* a walk that stops when one side is used up, without the two loops that
\* push what is left of the other
RECURSIVE DiffWalk_NoTail(_, _, _, _, _, _)
DiffWalk_NoTail(a, b, dp, i, j, ops) ==
  IF i < Len(a) /\ j < Len(b)
  THEN (IF a[i + 1] = b[j + 1]
        THEN DiffWalk_NoTail(a, b, dp, i + 1, j + 1, pushOp(ops, "equal", a[i + 1]))
        ELSE IF dp[i + 1, j] >= dp[i, j + 1]
        THEN DiffWalk_NoTail(a, b, dp, i + 1, j, pushOp(ops, "remove", a[i + 1]))
        ELSE DiffWalk_NoTail(a, b, dp, i, j + 1, pushOp(ops, "add", b[j + 1])))
  ELSE ops

\* the three while loops of diffLines, from the positions i and j (0-based)
RECURSIVE DiffWalk(_, _, _, _, _, _)
DiffWalk(a, b, dp, i, j, ops) ==
  IF i < Len(a) /\ j < Len(b)
  THEN (IF a[i + 1] = b[j + 1]
        THEN DiffWalk(a, b, dp, i + 1, j + 1, pushOp(ops, "equal", a[i + 1]))
        ELSE IF dp[i + 1, j] >= dp[i, j + 1]
        THEN DiffWalk(a, b, dp, i + 1, j, pushOp(ops, "remove", a[i + 1]))
        ELSE DiffWalk(a, b, dp, i, j + 1, pushOp(ops, "add", b[j + 1])))
  ELSE PushLeft(PushLeft(ops, "remove", SubSeq(a, i + 1, Len(a))), "add",
                SubSeq(b, j + 1, Len(b)))

diffLines(a, b) == DiffWalk(a, b, LcsTable(a, b), 0, 0, <<>>)

\* the lines of the ops, each with the prefix of its run
RECURSIVE OpBodyLines(_)
OpBodyLines(ops) ==
  IF ops = <<>> THEN <<>>
  ELSE LET op == Head(ops)
           mark == IF op.type = "equal" THEN " " ELSE IF op.type = "add" THEN "+" ELSE "-"
       IN [k \in 1..Len(op.lines) |-> <<mark>> \o op.lines[k]] \o OpBodyLines(Tail(ops))

\* a rendering that marks a cut body with a line of its own
buildUnifiedDiff_Marker(relPath, ops, maxLines) ==
  LET header == <<HeaderA \o relPath, HeaderB \o relPath>>
      body == Take(OpBodyLines(ops), maxLines)
      more == IF Len(OpBodyLines(ops)) > maxLines THEN <<<<".", ".", ".">>>> ELSE <<>>
  IN Join(header \o body \o more, <<"\n">>)

buildUnifiedDiff(relPath, ops, maxLines) ==
  LET header == <<HeaderA \o relPath, HeaderB \o relPath>>
      body == Take(OpBodyLines(ops), maxLines)
  IN Join(header \o body, <<"\n">>)

RECURSIVE CountLines(_, _)
CountLines(ops, type) ==
  IF ops = <<>> THEN 0
  ELSE (IF Head(ops).type = type THEN Len(Head(ops).lines) ELSE 0) + CountLines(Tail(ops), type)

\* --- the baseline snapshot ---

\* os.tmpdir()
TmpDir == <<S_tmp>>
\* path.join(os.tmpdir(), "coding-agent-baselines", hash)
CacheDirOf(tmp, hash) == tmp \o <<S_cache, hash>>
CacheDir == CacheDirOf(TmpDir, S_hash)
\* path.join(cacheDir, "baseline.json")
BaselinePathOf(tmp, hash) == Append(CacheDirOf(tmp, hash), S_baseline_json)
\* opts.baselinePath as run.ts sets it
BaselinePath == BaselinePathOf(TmpDir, S_hash)

\* a digest: equal exactly for equal texts
Sha256(s) == <<"#sha256">> \o s

\* an entry that always keeps the content
BaselineStat_KeepAll(ds, fl, abs, size) ==
  [bytes |-> size, content |-> ReadFileSync(ds, fl, abs)]

\* the entry createBaseline stores for a listed file of that size
BaselineStat(ds, fl, abs, size) ==
  [bytes |-> size, content |-> IF size <= MaxReadBytes THEN ReadFileSync(ds, fl, abs) ELSE Null]

BaselineEntry(ds, fl, abs) == BaselineStat(ds, fl, abs, StatSize(ds, fl, abs))

\* the listed files that statSync finds to be regular files
BaselineKept(ds, fl, listed) ==
  SelectSeq(listed, LAMBDA rel : ExistsSync(ds, fl, PathResolve(RepoRoot, rel))
                                 /\ StatIsFile(ds, fl, PathResolve(RepoRoot, rel)))

\* the snapshot, kept as the object JSON.parse gives back; keys is
\* Object.keys(files)
BaselineData(ds, fl, kept) ==
  [createdAt |-> "t0", maxReadBytes |-> MaxReadBytes, keys |-> kept,
   files |-> [rel \in SeqToSet(kept) |-> BaselineEntry(ds, fl, PathResolve(RepoRoot, rel))]]

BaselineWritten(ds, fl, data) ==
  [dirs |-> ds,
   files |-> [q \in (DOMAIN fl) \cup {BaselinePath} |->
                IF q = BaselinePath THEN data ELSE fl[q]]]

\* createBaseline(opts): the tree afterwards
createBaseline(ds, fl) ==
  BaselineWritten(MkdirRecursive(ds, fl, CacheDir).dirs, fl,
                  BaselineData(ds, fl, BaselineKept(ds, fl,
                                                    listFilesRecursive(ds, fl, ListerMaxFiles))))

LoadFail(kind) == [ok |-> FALSE, err |-> kind, path |-> <<>>, json |-> <<>>]

\* opts.baselinePath when run.ts could not create the snapshot, or the
\* tools were built without one
NoBaselinePath == <<>>

\* the two location tests of getBaselinePath
BaselineLocation(cand, repoAbs, tmpRoot, candidateAbs) ==
  IF ~cand.ok THEN LoadFail("BaselineNotFound")
  ELSE IF StartsWith(AbsString(cand.path), AbsString(repoAbs) \o <<"/">>)
  THEN LoadFail("InvalidBaselineLocation")
  ELSE IF ~StartsWith(AbsString(cand.path), AbsString(Append(tmpRoot, S_cache)) \o <<"/">>)
  THEN LoadFail("InvalidBaselineLocation")
  ELSE [ok |-> TRUE, err |-> "", path |-> candidateAbs, json |-> <<>>]

getBaselinePath(ds, fl) ==
  IF baselinePath = NoBaselinePath THEN LoadFail("BaselineNotFound")
  ELSE BaselineLocation(RealCandidate(ds, fl, baselinePath),
                        RealpathSync(ds, fl, RepoRoot).path,
                        RealpathSync(ds, fl, TmpDir).path, baselinePath)

\* contents of a snapshot file that JSON.parse rejects, and that it parses
\* to a value without files; what createBaseline writes is the record of
\* BaselineData
NotJson == [text |-> <<"{">>]
JsonWithoutFiles == [json |-> <<"[", "]">>]

\* JSON.parse(raw) and the format check of loadBaseline
LoadParsed(p, raw) ==
  IF "text" \in DOMAIN raw THEN LoadFail("InvalidBaselineJson")
  ELSE IF "files" \notin DOMAIN raw THEN LoadFail("InvalidBaselineFormat")
  ELSE [p EXCEPT !.json = raw]

\* a loadBaseline that takes a missing snapshot file for an empty snapshot
LoadAt_Lenient(ds, fl, p) ==
  IF ~p.ok THEN p
  ELSE IF ~ExistsSync(ds, fl, p.path) THEN [p EXCEPT !.json = BaselineData(ds, fl, <<>>)]
  ELSE LoadParsed(p, ReadFileSync(ds, fl, p.path))

LoadAt(ds, fl, p) ==
  IF ~p.ok THEN p
  ELSE IF ~ExistsSync(ds, fl, p.path) THEN LoadFail("BaselineNotFound")
  ELSE LoadParsed(p, ReadFileSync(ds, fl, p.path))

loadBaseline(ds, fl) == LoadAt(ds, fl, getBaselinePath(ds, fl))

BaselineInfo(ds, fl, g, b) ==
  IF ~b.ok THEN Throw(b.err, 0, ds, fl, g)
  ELSE Return(ds, fl, g, [created_at |-> b.json.createdAt, files |-> Len(b.json.keys),
                          maxReadBytes |-> b.json.maxReadBytes])

getBaselineInfo(ds, fl, g) == BaselineInfo(ds, fl, g, loadBaseline(ds, fl))

\* the test of the loop of listChangedFiles that puts a listed file with
\* the baseline entry base under modified
\* a test that compares the sizes only
ModifiedAt_SizeOnly(ds, fl, base, abs) ==
  /\ ExistsSync(ds, fl, abs)
  /\ StatSize(ds, fl, abs) # base.bytes

ModifiedAt(ds, fl, base, abs) ==
  /\ ExistsSync(ds, fl, abs)
  /\ \/ StatSize(ds, fl, abs) # base.bytes
     \/ /\ base.content # Null
        /\ StatSize(ds, fl, abs) <= MaxReadBytes
        /\ ReadFileSync(ds, fl, abs) # base.content

IsModified(ds, fl, json, p) == ModifiedAt(ds, fl, json.files[p], PathResolve(RepoRoot, p))

\* (p) => prefix ? p.startsWith(prefix) : true
Filt(prefix, p) == prefix = <<>> \/ StartsWith(p, prefix)

ChangedLists(ds, fl, g, json, currentFiles, prefix, limit) ==
  Return(ds, fl, g,
         [baseline_files |-> Len(json.keys), current_files |-> Len(currentFiles),
          added |-> Take(SelectSeq(currentFiles, LAMBDA p :
                           p \notin SeqToSet(json.keys) /\ Filt(prefix, p)), limit),
          deleted |-> Take(SelectSeq(json.keys, LAMBDA p :
                             p \notin SeqToSet(currentFiles) /\ Filt(prefix, p)), limit),
          modified |-> Take(SelectSeq(currentFiles, LAMBDA p :
                              p \in SeqToSet(json.keys) /\ Filt(prefix, p)
                              /\ IsModified(ds, fl, json, p)), limit)])

ChangedLoaded(ds, fl, g, args, b) ==
  IF ~b.ok THEN Throw(b.err, 0, ds, fl, g)
  ELSE ChangedLists(ds, fl, g, b.json, listFilesRecursive(ds, fl, ListerMaxFiles),
                    Trim(args.prefix), Clamp(args.limit, 1, MaxListLimit))

listChangedFiles(ds, fl, g, args) == ChangedLoaded(ds, fl, g, args, loadBaseline(ds, fl))

OriginalLoaded(ds, fl, g, r, b) ==
  IF ~b.ok THEN Throw(b.err, 0, ds, fl, g)
  ELSE IF r.relPath \notin DOMAIN b.json.files
  THEN Return(ds, fl, g, [path |-> r.relPath, existed |-> FALSE, bytes |-> 0, content |-> Null])
  ELSE Return(ds, fl, g, [path |-> r.relPath, existed |-> TRUE,
                          bytes |-> b.json.files[r.relPath].bytes,
                          content |-> b.json.files[r.relPath].content])

OriginalResolved(ds, fl, g, r) ==
  IF ~r.ok THEN Throw(r.err, 0, ds, fl, g)
  ELSE OriginalLoaded(ds, fl, g, r, loadBaseline(ds, fl))

readFileOriginal(ds, fl, g, args) ==
  OriginalResolved(ds, fl, g, resolveInRepo(ds, fl, args.path))

\* --- diff_file_against_original, diff_file_against_current ---

LCS_MAX_TOTAL_LINES == 10000
DefaultMaxLines == 2000
MaxMaxLines == 10000

Summary(before, after, added, removed) ==
  [before_bytes |-> before, after_bytes |-> after, added_lines |-> added,
   removed_lines |-> removed]

\* the object a diff operation returns; a field the code leaves out is
\* Null (diff_text) or empty (note)
DiffResult(relPath, status, summary, note, diffText) ==
  [path |-> relPath, status |-> status, summary |-> summary, note |-> note,
   diff_text |-> diffText]

\* the header the diff operations return in place of a diff they omit
OmittedHeader(relPath, why) ==
  Join(<<HeaderA \o relPath, HeaderB \o relPath, <<"@@ DIFF OMITTED: ", why, " @@">>>>, <<"\n">>)

\* safeRead(absPath, limit) of a file of that size
SafeReadStat(ds, fl, absPath, limit, size) ==
  IF size > limit THEN [ok |-> FALSE, content |-> <<>>, n |-> size]
  ELSE [ok |-> TRUE, content |-> ReadFileSync(ds, fl, absPath), n |-> 0]

safeRead(ds, fl, absPath, limit) ==
  SafeReadStat(ds, fl, absPath, limit, StatSize(ds, fl, absPath))

\* no baseline entry, the file exists
DiffAdded(ds, fl, g, relPath, rd, maxLines) ==
  IF ~rd.ok THEN Throw("TooLarge", rd.n, ds, fl, g)
  ELSE Return(ds, fl, g,
              DiffResult(relPath, "added",
                         Summary(0, ByteLength(rd.content), Len(SplitLines(rd.content)), 0), "",
                         buildUnifiedDiff(relPath, diffLines(<<>>, SplitLines(rd.content)),
                                          maxLines)))

\* a baseline entry, the file does not exist
DiffDeleted(ds, fl, g, relPath, base, baseLines, maxLines) ==
  Return(ds, fl, g,
         DiffResult(relPath, "deleted", Summary(base.bytes, 0, 0, Len(baseLines)), "",
                    buildUnifiedDiff(relPath, diffLines(baseLines, <<>>), maxLines)))

\* a size comparison that says nothing of how it compared
DiffSizeOnly_NoNote(ds, fl, g, relPath, base, size) ==
  Return(ds, fl, g,
         DiffResult(relPath, IF size # base.bytes THEN "modified" ELSE "unchanged",
                    Summary(base.bytes, size, 0, 0), "", Null))

\* the entry has no content: sizes only
DiffSizeOnly(ds, fl, g, relPath, base, size) ==
  Return(ds, fl, g,
         DiffResult(relPath, IF size # base.bytes THEN "modified" ELSE "unchanged",
                    Summary(base.bytes, size, 0, 0), "size-only", Null))

\* the diff of the two contents from their ops
DiffOps(ds, fl, g, relPath, beforeBytes, afterBytes, ops, maxLines) ==
  Return(ds, fl, g,
         DiffResult(relPath,
                    IF CountLines(ops, "add") = 0 /\ CountLines(ops, "remove") = 0
                    THEN "unchanged" ELSE "modified",
                    Summary(beforeBytes, afterBytes, CountLines(ops, "add"),
                            CountLines(ops, "remove")), "",
                    buildUnifiedDiff(relPath, ops, maxLines)))

\* a limit that already cuts in at the budget itself
DiffSplit_AtLimit(ds, fl, g, relPath, baseContent, currentContent, baseLines, curLines, maxLines) ==
  IF Len(baseLines) + Len(curLines) >= LCS_MAX_TOTAL_LINES
  THEN Return(ds, fl, g,
              DiffResult(relPath,
                         IF ByteLength(baseContent) # ByteLength(currentContent)
                            \/ Sha256(baseContent) # Sha256(currentContent)
                         THEN "modified" ELSE "unchanged",
                         Summary(ByteLength(baseContent), ByteLength(currentContent), 0, 0),
                         "omitted-lines",
                         OmittedHeader(relPath, "total line limit exceeded")))
  ELSE DiffOps(ds, fl, g, relPath, ByteLength(baseContent), ByteLength(currentContent),
               diffLines(baseLines, curLines), maxLines)

\* both contents read and split: the line limit, then the LCS diff
DiffSplit(ds, fl, g, relPath, baseContent, currentContent, baseLines, curLines, maxLines) ==
  IF Len(baseLines) + Len(curLines) > LCS_MAX_TOTAL_LINES
  THEN Return(ds, fl, g,
              DiffResult(relPath,
                         IF ByteLength(baseContent) # ByteLength(currentContent)
                            \/ Sha256(baseContent) # Sha256(currentContent)
                         THEN "modified" ELSE "unchanged",
                         Summary(ByteLength(baseContent), ByteLength(currentContent), 0, 0),
                         "omitted-lines",
                         OmittedHeader(relPath, "total line limit exceeded")))
  ELSE DiffOps(ds, fl, g, relPath, ByteLength(baseContent), ByteLength(currentContent),
               diffLines(baseLines, curLines), maxLines)

DiffRead(ds, fl, g, relPath, baseContent, currentContent, maxLines) ==
  DiffSplit(ds, fl, g, relPath, baseContent, currentContent, SplitLines(baseContent),
            SplitLines(currentContent), maxLines)

\* the entry has content: the read limit on the current file first
DiffContent(ds, fl, g, r, baseContent, afterBytes, maxLines) ==
  IF afterBytes > MaxReadBytes
  THEN Return(ds, fl, g,
              DiffResult(r.relPath,
                         IF ByteLength(baseContent) = afterBytes THEN "unchanged"
                         ELSE "modified",
                         Summary(ByteLength(baseContent), afterBytes, 0, 0), "omitted-size",
                         OmittedHeader(r.relPath, "file too large for content read")))
  ELSE DiffRead(ds, fl, g, r.relPath, baseContent, ReadFileSync(ds, fl, r.absPath), maxLines)

\* the four cases of diffFileAgainstOriginal
DiffCase(ds, fl, g, r, json, hasBase, currentExists, maxLines) ==
  IF ~hasBase /\ ~currentExists
  THEN Return(ds, fl, g, DiffResult(r.relPath, "unchanged", Summary(0, 0, 0, 0),
                                    "never-existed", Null))
  ELSE IF ~hasBase
  THEN DiffAdded(ds, fl, g, r.relPath, safeRead(ds, fl, r.absPath, MaxReadBytes), maxLines)
  ELSE IF ~currentExists
  THEN DiffDeleted(ds, fl, g, r.relPath, json.files[r.relPath],
                   SplitLines(IF json.files[r.relPath].content = Null THEN <<>>
                              ELSE json.files[r.relPath].content), maxLines)
  ELSE IF json.files[r.relPath].content = Null
  THEN DiffSizeOnly(ds, fl, g, r.relPath, json.files[r.relPath], StatSize(ds, fl, r.absPath))
  ELSE DiffContent(ds, fl, g, r, json.files[r.relPath].content, StatSize(ds, fl, r.absPath),
                   maxLines)

\* the part of diffFileAgainstOriginal after the baseline is loaded
DiffOriginal(ds, fl, g, r, json, maxLinesArg) ==
  DiffCase(ds, fl, g, r, json, r.relPath \in DOMAIN json.files,
           ExistsSync(ds, fl, r.absPath) /\ StatIsFile(ds, fl, r.absPath),
           Clamp(maxLinesArg, 1, MaxMaxLines))

DiffLoaded(ds, fl, g, args, r, b) ==
  IF ~b.ok THEN Throw(b.err, 0, ds, fl, g)
  ELSE DiffOriginal(ds, fl, g, r, b.json, args.max_lines)

DiffResolved(ds, fl, g, args, r) ==
  IF ~r.ok THEN Throw(r.err, 0, ds, fl, g)
  ELSE DiffLoaded(ds, fl, g, args, r, loadBaseline(ds, fl))

diffFileAgainstOriginal(ds, fl, g, args) ==
  DiffResolved(ds, fl, g, args, resolveInRepo(ds, fl, args.path))

\* a diff that counts as a read of the file
CurrentSplit_MarksRead(ds, fl, g, relPath, curLines, propLines, maxLines) ==
  IF Len(curLines) + Len(propLines) > LCS_MAX_TOTAL_LINES
  THEN Return(ds, fl, g \cup {relPath}, [path |-> relPath,
                          diff_text |-> OmittedHeader(relPath, "total line limit exceeded")])
  ELSE Return(ds, fl, g \cup {relPath}, [path |-> relPath,
                          diff_text |-> buildUnifiedDiff(relPath, diffLines(curLines, propLines),
                                                         maxLines)])

\* the diff of the current lines against the proposed ones
CurrentSplit(ds, fl, g, relPath, curLines, propLines, maxLines) ==
  IF Len(curLines) + Len(propLines) > LCS_MAX_TOTAL_LINES
  THEN Return(ds, fl, g, [path |-> relPath,
                          diff_text |-> OmittedHeader(relPath, "total line limit exceeded")])
  ELSE Return(ds, fl, g, [path |-> relPath,
                          diff_text |-> buildUnifiedDiff(relPath, diffLines(curLines, propLines),
                                                         maxLines)])

CurrentRead(ds, fl, g, args, r, rd) ==
  IF ~rd.ok THEN Throw("TooLarge", rd.n, ds, fl, g)
  ELSE CurrentSplit(ds, fl, g, r.relPath, SplitLines(rd.content),
                    SplitLines(args.proposed_content), Clamp(args.max_lines, 1, MaxMaxLines))

CurrentResolved(ds, fl, g, args, r) ==
  IF ~r.ok THEN Throw(r.err, 0, ds, fl, g)
  ELSE CurrentRead(ds, fl, g, args, r,
                   IF ExistsSync(ds, fl, r.absPath) /\ StatIsFile(ds, fl, r.absPath)
                   THEN safeRead(ds, fl, r.absPath, MaxReadBytes)
                   ELSE [ok |-> TRUE, content |-> <<>>, n |-> 0])

diffFileAgainstCurrent(ds, fl, g, args) ==
  CurrentResolved(ds, fl, g, args, resolveInRepo(ds, fl, args.path))

\* --- dispatch ---

ToolNames ==
  {"list_files", "read_file", "read_files_batch", "write_file", "delete_file",
   "stat_files_batch", "search_in_files", "get_baseline_info", "list_changed_files",
   "read_file_original", "diff_file_against_original", "diff_file_against_current",
   "apply_patch"}

\* call.arguments: the object the caller passes (present = FALSE: undefined);
\* a field that is left out has the value the method's own default gives it
NoArguments ==
  [present |-> FALSE, path |-> NotAString, content |-> <<>>, paths |-> <<>>, patch |-> <<>>,
   prefix |-> <<>>, limit |-> DefaultListLimit, query |-> <<>>,
   limit_files |-> DefaultLimitFiles, limit_matches |-> DefaultLimitMatches,
   proposed_content |-> <<>>, max_lines |-> DefaultMaxLines]
EmptyArgs == [NoArguments EXCEPT !.present = TRUE]
PathArgs(p) == [EmptyArgs EXCEPT !.path = p]
WriteArgs(p, c) == [EmptyArgs EXCEPT !.path = p, !.content = c]
BatchArgs(ps) == [EmptyArgs EXCEPT !.paths = ps]
PatchArgs(t) == [EmptyArgs EXCEPT !.patch = t]
ListArgs(prefix, limit) == [EmptyArgs EXCEPT !.prefix = prefix, !.limit = limit]
SearchArgs(query, prefix) == [EmptyArgs EXCEPT !.query = query, !.prefix = prefix]
DiffArgs(p, proposed, maxLines) ==
  [EmptyArgs EXCEPT !.path = p, !.proposed_content = proposed, !.max_lines = maxLines]

\* the switch of dispatch: the method the name selects, run on the
\* arguments; every method but getBaselineInfo reads a field of them
RunTool(ds, fl, g, call) ==
  IF call.name \notin ToolNames
  THEN [Return(ds, fl, g, <<>>) EXCEPT !.err = "UnknownOperation"]
  ELSE IF call.name = "get_baseline_info" THEN getBaselineInfo(ds, fl, g)
  ELSE IF ~call.arguments.present
  THEN Throw("TypeError", 0, ds, fl, g)
  ELSE CASE call.name = "list_files" -> listFiles(ds, fl, g, call.arguments)
         [] call.name = "read_file" -> readFile(ds, fl, g, call.arguments)
         [] call.name = "read_files_batch" -> readFilesBatch(ds, fl, g, call.arguments)
         [] call.name = "write_file" -> writeFile(ds, fl, g, call.arguments)
         [] call.name = "delete_file" -> deleteFile(ds, fl, g, call.arguments)
         [] call.name = "stat_files_batch" -> statFilesBatch(ds, fl, g, call.arguments)
         [] call.name = "search_in_files" -> searchInFiles(ds, fl, g, call.arguments)
         [] call.name = "list_changed_files" -> listChangedFiles(ds, fl, g, call.arguments)
         [] call.name = "read_file_original" -> readFileOriginal(ds, fl, g, call.arguments)
         [] call.name = "diff_file_against_original" ->
              diffFileAgainstOriginal(ds, fl, g, call.arguments)
         [] call.name = "diff_file_against_current" ->
              diffFileAgainstCurrent(ds, fl, g, call.arguments)
         [] call.name = "apply_patch" -> applyPatch(ds, fl, g, call.arguments)

\* a dispatch without the catch: what a method throws reaches the caller
CatchAll_Rethrow(r) ==
  [raised |-> r.thrown,
   ok |-> ~r.thrown /\ r.err = "",
   error |-> r.err, n |-> r.n, result |-> r.out, planned |-> r.planned,
   dirs |-> r.dirs, files |-> r.files, gate |-> r.gate]
\* try { ... } catch (e) { return { ok: false, error } }
CatchAll(r) ==
  [raised |-> FALSE,
   ok |-> ~r.thrown /\ r.err = "",
   error |-> r.err, n |-> r.n, result |-> r.out, planned |-> r.planned,
   dirs |-> r.dirs, files |-> r.files, gate |-> r.gate]

dispatch(ds, fl, g, call) == CatchAll(RunTool(ds, fl, g, call))

\* ------------------------------------------------------------------------
\* The tree at the start, the calls of a session
\* ------------------------------------------------------------------------

InitFiles ==
  (<<S_t, S_out>>                 :> <<"s", "\n">>) @@
  (<<S_t, S_repo, S_a_txt>>       :> <<"x", "\n", "y", "\n", "x", "\n">>) @@
  (<<S_t, S_repo, S_big>>         :> BigContent) @@
  (<<S_t, S_repo, S_env>>         :> <<"k", "\n">>) @@
  (<<S_t, S_repo, S_git, S_config>> :> <<"c", "\n">>) @@
  (<<S_t, S_repo, S_src, S_m_ts>> :> <<"m", "\n">>)

\* user paths
P_a      == S_a_txt
P_new    == S_new
P_m      == Join(<<S_src, S_m_ts>>, <<"/">>)
P_n      == Join(<<S_src, <<"n", ".", "t", "s">>>>, <<"/">>)
P_updown == Join(<<S_src, S_dotdot, S_a_txt>>, <<"/">>)
P_up     == Join(<<S_dotdot, S_out>>, <<"/">>)
P_upup   == Join(<<S_dotdot, S_nodir, S_x>>, <<"/">>)
P_abs    == AbsString(<<S_t, S_out>>)
P_lout   == S_lout
P_ldang  == S_ldang
P_lin    == S_lin
P_ldir   == Join(<<S_ldir, S_out>>, <<"/">>)
P_env    == S_env
P_Git    == Join(<<S_Git, S_config>>, <<"/">>)
P_git    == Join(<<S_git, S_config>>, <<"/">>)
P_gitdir == S_git
P_KEY    == <<"i", "d", ".", "K", "E", "Y">>
P_src    == S_src
P_under  == Join(<<S_a_txt, S_x>>, <<"/">>)
P_nodir  == Join(<<S_nodir, S_x>>, <<"/">>)
P_big    == S_big
P_dot    == S_dot
P_blank  == <<" ">>
P_nul    == <<"a", NUL>>

\* every user path the properties of resolveInRepo are checked on
UserPaths ==
  {P_a, P_new, P_m, P_n, P_updown, P_up, P_upup, P_abs, P_lout, P_ldang, P_lin, P_ldir,
   P_env, P_Git, P_git, P_gitdir, P_KEY, P_src, P_under, P_nodir, P_big, P_dot,
   P_blank, P_nul, NotAString}

\* the user paths the calls of a session are made with
SessionPaths == {P_a, P_new, P_lin, P_ldang, P_env, P_big}

TooBigContent == [i \in 1..(MaxWriteBytes + 1) |-> "z"]
WriteContents == {<<"z">>, TooBigContent}

BatchInputs == {<<P_a, P_big>>, <<P_new, P_env>>, <<>>}

\* patch texts
Ctx(t) == <<" ">> \o t
Del(t) == <<"-">> \o t
Add(t) == <<"+">> \o t
Section(path, body) == <<HeaderA \o path, HeaderB \o path>> \o body
PatchText(lines) == Join(lines, <<"\n">>)

\* a section that creates new.txt
GoodSection == Section(P_new, <<Add(<<"z">>)>>)

\* sections that follow it in a two-section patch: a fragment that is not
\* found, a second write that fails, a file never read, an invalid line,
\* and a valid change
SecondSections ==
  {Section(P_a, <<Del(<<"q">>), Add(<<"z">>)>>),
   Section(P_under, <<Add(<<"z">>)>>),
   Section(P_m, <<Del(<<"m">>), Add(<<"z">>)>>),
   Section(P_new, <<<<"?", "z">>>>),
   Section(P_a, <<Del(<<"y">>), Add(<<"z">>)>>)}

OtherSections ==
  SecondSections \cup
  {Section(P_a, <<Del(<<"y">>), Add(<<"$", "$">>)>>),
   Section(P_a, <<Del(<<"x">>), Add(<<"z">>)>>),
   Section(P_a, <<Del(<<"y">>), Add([i \in 1..MaxWriteBytes |-> "z"])>>),
   Section(P_env, <<Add(<<"z">>)>>),
   Section(P_up, <<Add(<<"z">>)>>),
   Section(P_n, <<Del(<<"q">>), Add(<<"z">>)>>),
   Section(P_a, <<Del(<<"x">>), Del(<<"y">>), Del(<<"x">>), Del(<<>>), Add(<<"z">>)>>),
   <<HeaderA \o P_new, Add(<<"z">>)>>}

PatchInputs ==
  {PatchText(s) : s \in {GoodSection} \cup OtherSections}
  \cup {PatchText(GoodSection \o s) : s \in SecondSections}
  \cup {PatchText(GoodSection) \o <<"\n">>}
  \cup {<<>>}

ListInputs == {ListArgs(<<>>, DefaultListLimit), ListArgs(<<"s">>, 1)}
StatInputs == {<<P_a, P_env, P_src>>, <<>>}
SearchInputs == {SearchArgs(<<"x">>, <<>>), SearchArgs(<<"s">>, <<>>), SearchArgs(<<>>, <<>>)}
ChangedInputs == {ListArgs(<<>>, DefaultListLimit)}
OriginalPaths == {P_a, P_new, P_big}
UnknownNames == {"rename_file"}
DiffInputs ==
  {DiffArgs(P_a, <<"z">>, DefaultMaxLines), DiffArgs(P_big, <<"z">>, 1),
   DiffArgs(P_new, <<"z">>, DefaultMaxLines), DiffArgs(P_env, <<"z">>, DefaultMaxLines)}

\* the ToolResult of a call, with the call's name and what the call found:
\* whether its path named something that exists, and whether it was marked read
Outcome(call, r, pre) ==
  [name |-> call.name, raised |-> r.raised, ok |-> r.ok, error |-> r.error, n |-> r.n,
   result |-> r.result, planned |-> r.planned,
   existed |-> call.arguments.path # NotAString
               /\ ExistsSync(dirs, files, PathResolve(RepoRoot, Trim(call.arguments.path))),
   resolved |-> pre.ok,
   wasRead |-> pre.ok /\ pre.relPath \in readGate,
   tooBig |-> ByteLength(call.arguments.content) > MaxWriteBytes]

\* no line diff under way
NoLineDiff == [stage |-> "none", a |-> <<>>, b |-> <<>>, ops |-> <<>>, maxLines |-> 0,
               text |-> <<>>, baseContent |-> <<>>, currentContent |-> <<>>,
               result |-> <<>>]

\* run.ts: createBaseline(sandbox), then new RepoTools(sandbox)
StartTree == createBaseline(InitDirs, InitFiles)

Init ==
  /\ dirs = StartTree.dirs
  /\ files = StartTree.files
  /\ readGate = {}
  /\ run = NoRun /\ calls = NoCalls
  /\ baselinePath = BaselinePath
  /\ lineDiff = NoLineDiff
  /\ last = [name |-> "", raised |-> FALSE, ok |-> TRUE, error |-> "", n |-> 0,
             result |-> <<>>, planned |-> 0, existed |-> FALSE, resolved |-> FALSE,
             wasRead |-> FALSE, tooBig |-> FALSE]

\* await tools.dispatch(call) in the current state: the tree and the gate
\* the call leaves, and the record of the call
Finished(call, r, pre) ==
  [dirs |-> r.dirs, files |-> r.files, gate |-> r.gate, last |-> Outcome(call, r, pre)]
Dispatched(call) ==
  Finished(call, dispatch(dirs, files, readGate, call),
           resolveInRepo(dirs, files, call.arguments.path))

ListFiles ==
  \E a \in ListInputs : \E d \in {Dispatched([name |-> "list_files", arguments |-> a])} :
    /\ dirs' = d.dirs /\ files' = d.files /\ readGate' = d.gate /\ last' = d.last
    /\ UNCHANGED <<baselinePath, lineDiff, run, calls>>

ReadFile ==
  \E p \in SessionPaths :
    \E d \in {Dispatched([name |-> "read_file", arguments |-> PathArgs(p)])} :
      /\ dirs' = d.dirs /\ files' = d.files /\ readGate' = d.gate /\ last' = d.last
      /\ UNCHANGED <<baselinePath, lineDiff, run, calls>>

ReadFilesBatch ==
  \E ps \in BatchInputs :
    \E d \in {Dispatched([name |-> "read_files_batch", arguments |-> BatchArgs(ps)])} :
      /\ dirs' = d.dirs /\ files' = d.files /\ readGate' = d.gate /\ last' = d.last
      /\ UNCHANGED <<baselinePath, lineDiff, run, calls>>

WriteFile ==
  \E p \in SessionPaths, c \in WriteContents :
    \E d \in {Dispatched([name |-> "write_file", arguments |-> WriteArgs(p, c)])} :
      /\ dirs' = d.dirs /\ files' = d.files /\ readGate' = d.gate /\ last' = d.last
      /\ UNCHANGED <<baselinePath, lineDiff, run, calls>>

DeleteFile ==
  \E p \in SessionPaths :
    \E d \in {Dispatched([name |-> "delete_file", arguments |-> PathArgs(p)])} :
      /\ dirs' = d.dirs /\ files' = d.files /\ readGate' = d.gate /\ last' = d.last
      /\ UNCHANGED <<baselinePath, lineDiff, run, calls>>

StatFilesBatch ==
  \E ps \in StatInputs :
    \E d \in {Dispatched([name |-> "stat_files_batch", arguments |-> BatchArgs(ps)])} :
      /\ dirs' = d.dirs /\ files' = d.files /\ readGate' = d.gate /\ last' = d.last
      /\ UNCHANGED <<baselinePath, lineDiff, run, calls>>

SearchInFiles ==
  \E a \in SearchInputs : \E d \in {Dispatched([name |-> "search_in_files", arguments |-> a])} :
    /\ dirs' = d.dirs /\ files' = d.files /\ readGate' = d.gate /\ last' = d.last
    /\ UNCHANGED <<baselinePath, lineDiff, run, calls>>

GetBaselineInfo ==
  \E d \in {Dispatched([name |-> "get_baseline_info", arguments |-> NoArguments])} :
    /\ dirs' = d.dirs /\ files' = d.files /\ readGate' = d.gate /\ last' = d.last
    /\ UNCHANGED <<baselinePath, lineDiff, run, calls>>

ListChangedFiles ==
  \E a \in ChangedInputs :
    \E d \in {Dispatched([name |-> "list_changed_files", arguments |-> a])} :
      /\ dirs' = d.dirs /\ files' = d.files /\ readGate' = d.gate /\ last' = d.last
      /\ UNCHANGED <<baselinePath, lineDiff, run, calls>>

ReadFileOriginal ==
  \E p \in OriginalPaths :
    \E d \in {Dispatched([name |-> "read_file_original", arguments |-> PathArgs(p)])} :
      /\ dirs' = d.dirs /\ files' = d.files /\ readGate' = d.gate /\ last' = d.last
      /\ UNCHANGED <<baselinePath, lineDiff, run, calls>>

DiffFileAgainstOriginal ==
  \E p \in OriginalPaths :
    \E d \in {Dispatched([name |-> "diff_file_against_original",
                          arguments |-> DiffArgs(p, <<>>, DefaultMaxLines)])} :
      /\ dirs' = d.dirs /\ files' = d.files /\ readGate' = d.gate /\ last' = d.last
      /\ UNCHANGED <<baselinePath, lineDiff, run, calls>>

DiffFileAgainstCurrent ==
  \E a \in DiffInputs :
    \E d \in {Dispatched([name |-> "diff_file_against_current", arguments |-> a])} :
      /\ dirs' = d.dirs /\ files' = d.files /\ readGate' = d.gate /\ last' = d.last
      /\ UNCHANGED <<baselinePath, lineDiff, run, calls>>

ApplyPatch ==
  \E t \in PatchInputs :
    \E d \in {Dispatched([name |-> "apply_patch", arguments |-> PatchArgs(t)])} :
      /\ dirs' = d.dirs /\ files' = d.files /\ readGate' = d.gate /\ last' = d.last
      /\ UNCHANGED <<baselinePath, lineDiff, run, calls>>

\* a name outside ToolName
UnknownTool ==
  \E nm \in UnknownNames :
    \E d \in {Dispatched([name |-> nm, arguments |-> PathArgs(P_a)])} :
      /\ dirs' = d.dirs /\ files' = d.files /\ readGate' = d.gate /\ last' = d.last
      /\ UNCHANGED <<baselinePath, lineDiff, run, calls>>

\* a call without its arguments object
MissingArguments ==
  \E nm \in {"read_file", "write_file", "apply_patch"} :
    \E d \in {Dispatched([name |-> nm, arguments |-> NoArguments])} :
      /\ dirs' = d.dirs /\ files' = d.files /\ readGate' = d.gate /\ last' = d.last
      /\ UNCHANGED <<baselinePath, lineDiff, run, calls>>

Next ==
  \/ ListFiles
  \/ ReadFile
  \/ ReadFilesBatch
  \/ WriteFile
  \/ DeleteFile
  \/ StatFilesBatch
  \/ SearchInFiles
  \/ GetBaselineInfo
  \/ ListChangedFiles
  \/ ReadFileOriginal
  \/ DiffFileAgainstOriginal
  \/ DiffFileAgainstCurrent
  \/ ApplyPatch
  \/ UnknownTool
  \/ MissingArguments

Spec == Init /\ [][Next]_vars

\* --- the line diff on its own ---

\* the longest argument of diffLines
MaxDiffLines == 3
\* the lines the arguments are made of
DiffLineChoices == {<<"x">>, <<"y">>}

LineSeqs == UNION {[1..n -> DiffLineChoices] : n \in 0..MaxDiffLines}

\* the argument pairs the diff operations pass to diffLines: split gives
\* at least one line, and only one side can be the empty array (a file
\* that is new, or gone)
DiffLinePairs == {p \in LineSeqs \X LineSeqs : p[1] # <<>> \/ p[2] # <<>>}

\* args.max_lines; the default when it is undefined
RenderLimits == {0 - 1, 0, 1, 2, MaxMaxLines + 1, DefaultMaxLines}

DiffInit ==
  /\ dirs = StartTree.dirs
  /\ files = StartTree.files
  /\ readGate = {}
  /\ run = NoRun /\ calls = NoCalls
  /\ baselinePath = BaselinePath
  /\ last = [name |-> "", raised |-> FALSE, ok |-> TRUE, error |-> "", n |-> 0,
             result |-> <<>>, planned |-> 0, existed |-> FALSE, resolved |-> FALSE,
             wasRead |-> FALSE, tooBig |-> FALSE]
  /\ \E p \in DiffLinePairs : lineDiff = [NoLineDiff EXCEPT !.stage = "lines", !.a = p[1], !.b = p[2]]

\* const ops = this.diffLines(a, b)
DiffLinesCall ==
  /\ lineDiff.stage = "lines"
  /\ lineDiff' = [lineDiff EXCEPT !.stage = "ops", !.ops = diffLines(lineDiff.a, lineDiff.b)]
  /\ UNCHANGED <<dirs, files, readGate, baselinePath, last, run, calls>>

\* const maxLines = Math.min(Math.max(args.max_lines ?? 2000, 1), 10000);
\* this.buildUnifiedDiff(relPath, a, b, maxLines, ops)
BuildUnifiedDiffCall ==
  /\ lineDiff.stage = "ops"
  /\ \E m \in RenderLimits :
       lineDiff' = [lineDiff EXCEPT !.stage = "text", !.maxLines = m,
                                    !.text = buildUnifiedDiff(P_a, lineDiff.ops,
                                                              Clamp(m, 1, MaxMaxLines))]
  /\ UNCHANGED <<dirs, files, readGate, baselinePath, last, run, calls>>

DiffNext ==
  \/ DiffLinesCall
  \/ BuildUnifiedDiffCall

DiffSpec == DiffInit /\ [][DiffNext]_vars

\* --- the line limit of the diff operations ---

\* a text of n lines, a first line and n - 1 empty ones, and what
\* split(/\r?\n/) makes of it
TallText(first, n) == first \o [i \in 1..(n - 1) |-> "\n"]
TallLines(first, n) == <<first>> \o [i \in 1..(n - 1) |-> <<>>]

\* the line counts of the texts: a few lines, or nearly the whole budget
MaxShortLines == 3
LimitCounts == (1..MaxShortLines) \cup ((LCS_MAX_TOTAL_LINES - MaxShortLines)..LCS_MAX_TOTAL_LINES)
LimitFirstLines == {<<"x">>, <<"y">>}
\* args.max_lines of the calls
LimitMaxLines == 2

\* the two texts of a call. Of the pairs within the budget that have a
\* long side only those with one first line are taken: the table of the
\* others has some ten thousand rows to fill
LimitCases ==
  {c \in [fa : LimitFirstLines, m : LimitCounts, fb : LimitFirstLines, n : LimitCounts] :
     \/ c.m + c.n > LCS_MAX_TOTAL_LINES
     \/ c.fa = c.fb
     \/ (c.m <= MaxShortLines /\ c.n <= MaxShortLines)}

LimitInit ==
  /\ dirs = StartTree.dirs
  /\ files = StartTree.files
  /\ readGate = {}
  /\ run = NoRun /\ calls = NoCalls
  /\ baselinePath = BaselinePath
  /\ last = [name |-> "", raised |-> FALSE, ok |-> TRUE, error |-> "", n |-> 0,
             result |-> <<>>, planned |-> 0, existed |-> FALSE, resolved |-> FALSE,
             wasRead |-> FALSE, tooBig |-> FALSE]
  /\ \E c \in LimitCases :
       lineDiff = [NoLineDiff EXCEPT !.stage = "contents", !.maxLines = LimitMaxLines,
                                     !.baseContent = TallText(c.fa, c.m),
                                     !.currentContent = TallText(c.fb, c.n),
                                     !.a = TallLines(c.fa, c.m), !.b = TallLines(c.fb, c.n)]

\* diffFileAgainstOriginal from the point where both contents are split
DiffSplitCall ==
  /\ lineDiff.stage = "contents"
  /\ lineDiff' = [lineDiff EXCEPT
                    !.stage = "original",
                    !.result = DiffSplit(dirs, files, readGate, P_a, lineDiff.baseContent,
                                         lineDiff.currentContent, lineDiff.a, lineDiff.b,
                                         Clamp(lineDiff.maxLines, 1, MaxMaxLines)).out]
  /\ UNCHANGED <<dirs, files, readGate, baselinePath, last, run, calls>>

\* diffFileAgainstCurrent from the point where both contents are split
CurrentSplitCall ==
  /\ lineDiff.stage = "contents"
  /\ lineDiff' = [lineDiff EXCEPT
                    !.stage = "current",
                    !.result = CurrentSplit(dirs, files, readGate, P_a, lineDiff.a, lineDiff.b,
                                            Clamp(lineDiff.maxLines, 1, MaxMaxLines)).out]
  /\ UNCHANGED <<dirs, files, readGate, baselinePath, last, run, calls>>

LimitNext ==
  \/ DiffSplitCall
  \/ CurrentSplitCall

LimitSpec == LimitInit /\ [][LimitNext]_vars

\* --- sessions over a snapshot that is not what createBaseline left ---

\* a location inside the repository
InsideLocation == Append(RepoRoot, S_baseline_json)

SnapshotPut(location, content) ==
  [q \in (DOMAIN StartTree.files) \cup {location} |->
     IF q = location THEN content ELSE StartTree.files[q]]
SnapshotRemoved == [q \in (DOMAIN StartTree.files) \ {BaselinePath} |-> StartTree.files[q]]

\* opts.baselinePath and the tree when RepoTools is constructed: the
\* snapshot of run.ts; no location (createBaseline threw); the file gone;
\* the cache directory never made; a file that is not JSON; JSON without
\* files; a location inside the repository
SnapshotCases ==
  {[path |-> BaselinePath, dirs |-> StartTree.dirs, files |-> StartTree.files],
   [path |-> NoBaselinePath, dirs |-> InitDirs, files |-> InitFiles],
   [path |-> BaselinePath, dirs |-> StartTree.dirs, files |-> SnapshotRemoved],
   [path |-> BaselinePath, dirs |-> InitDirs, files |-> InitFiles],
   [path |-> BaselinePath, dirs |-> StartTree.dirs, files |-> SnapshotPut(BaselinePath, NotJson)],
   [path |-> BaselinePath, dirs |-> StartTree.dirs,
    files |-> SnapshotPut(BaselinePath, JsonWithoutFiles)],
   [path |-> InsideLocation, dirs |-> StartTree.dirs,
    files |-> SnapshotPut(InsideLocation, NotJson)]}

SnapshotInit ==
  \E c \in SnapshotCases :
    /\ dirs = c.dirs
    /\ files = c.files
    /\ readGate = {}
    /\ run = NoRun /\ calls = NoCalls
    /\ baselinePath = c.path
    /\ lineDiff = NoLineDiff
    /\ last = [name |-> "", raised |-> FALSE, ok |-> TRUE, error |-> "", n |-> 0,
               result |-> <<>>, planned |-> 0, existed |-> FALSE, resolved |-> FALSE,
               wasRead |-> FALSE, tooBig |-> FALSE]

SnapshotNext ==
  \/ ReadFile
  \/ DeleteFile
  \/ GetBaselineInfo
  \/ ListChangedFiles
  \/ ReadFileOriginal
  \/ DiffFileAgainstOriginal

SnapshotSpec == SnapshotInit /\ [][SnapshotNext]_vars

\* --- a session of reads, deletions and patches ---

\* a patch of two sections for a.txt
ApplyPatchTwice ==
  \E d \in {Dispatched([name |-> "apply_patch",
                        arguments |-> PatchArgs(PatchText(
                          Section(P_a, <<Del(<<"y">>), Add(<<"z">>)>>)
                          \o Section(P_a, <<Del(<<"x">>), Add(<<"w">>), Ctx(<<"y">>)>>)))])} :
    /\ dirs' = d.dirs /\ files' = d.files /\ readGate' = d.gate /\ last' = d.last
    /\ UNCHANGED <<baselinePath, lineDiff, run, calls>>

PatchNext ==
  \/ ReadFile
  \/ DeleteFile
  \/ ApplyPatch
  \/ ApplyPatchTwice

PatchSpec == Init /\ [][PatchNext]_vars

\* --- review of a repository that changed after the snapshot was taken ---

\* the files someone else (an editor, git) writes or removes while the
\* agent runs, and what they write: a short text, a text of the size of
\* a.txt, and two texts above the read limit
OutsideFiles == {PathResolve(RepoRoot, P_a), PathResolve(RepoRoot, P_big),
                 PathResolve(RepoRoot, P_new)}
OutsideContents ==
  {<<"z", "\n">>, <<"x", "\n", "q", "\n", "x", "\n">>, BigContent,
   [i \in 1..(MaxReadBytes + 1) |-> "y"]}

\* no result in hand: the last one described the tree before the change
NoCall == [name |-> "", raised |-> FALSE, ok |-> TRUE, error |-> "", n |-> 0,
           result |-> <<>>, planned |-> 0, existed |-> FALSE, resolved |-> FALSE,
           wasRead |-> FALSE, tooBig |-> FALSE]

OutsideWrite ==
  \E f \in OutsideFiles, c \in OutsideContents :
    /\ files' = [q \in (DOMAIN files) \cup {f} |-> IF q = f THEN c ELSE files[q]]
    /\ last' = NoCall
    /\ UNCHANGED <<dirs, readGate, baselinePath, lineDiff, run, calls>>

OutsideRemove ==
  \E f \in OutsideFiles \cap DOMAIN files :
    /\ files' = UnlinkSync(files, f)
    /\ last' = NoCall
    /\ UNCHANGED <<dirs, readGate, baselinePath, lineDiff, run, calls>>

ReviewNext ==
  \/ OutsideWrite
  \/ OutsideRemove
  \/ ListChangedFiles
  \/ ReadFileOriginal
  \/ DiffFileAgainstOriginal

ReviewSpec == Init /\ [][ReviewNext]_vars

\* ------------------------------------------------------------------------
\* Properties
\* ------------------------------------------------------------------------

\* abs is a strict descendant of the root
InRoot(abs) == Len(abs) > Len(RepoRoot) /\ SubSeq(abs, 1, Len(RepoRoot)) = RepoRoot

\* the place a path leads to when every symbolic link is followed, also a
\* last one whose target does not exist yet
Destination(ds, fl, abs) ==
  IF RealpathSync(ds, fl, abs).ok THEN RealpathSync(ds, fl, abs)
  ELSE OpenForWrite(ds, fl, abs, MaxSymlinkHops)

MutatingNames == {"write_file", "delete_file", "apply_patch"}
ReadingNames == {"read_file", "read_files_batch"}

\* C1: a write_file, delete_file or apply_patch call changes or removes a
\* file that existed when the call started only if the file lies under the
\* root and its root-relative path was in the ReadGate already, and only a
\* successful read_file or read_files_batch adds a path to the ReadGate.
C1_MutationNeedsRead ==
  [][/\ \A f \in DOMAIN files :
          (f \notin DOMAIN files' \/ files'[f] # files[f])
            => /\ last'.name \in MutatingNames
               /\ InRoot(f)
               /\ RelString(f) \in readGate
     /\ readGate' # readGate => last'.name \in ReadingNames /\ last'.ok]_vars

\* an apply_patch that succeeded and changed a file that existed before
C1_Witness ==
  /\ last.name = "apply_patch" /\ last.ok
  /\ \E i \in DOMAIN last.result.files :
       /\ last.result.files[i].existed_before
       /\ last.result.files[i].path \in readGate
       /\ files[PathResolve(RepoRoot, last.result.files[i].path)]
            # StartTree.files[PathResolve(RepoRoot, last.result.files[i].path)]

\* the errors of the parsing and of the first pass of apply_patch
ValidationErrors ==
  {"PatchRequired", "InvalidPatchFormat", "InvalidPatchLine", "InvalidPath", "PathTraversal",
   "AccessDenied", "ReadRequired", "NewFileBaseNotEmpty", "AmbiguousFragment", "TooLarge"}

\* C2: an apply_patch call that fails because a section fails parsing or
\* validation creates and modifies no file and no directory.
C2_PatchAllOrNothing ==
  [][(last'.name = "apply_patch" /\ ~last'.ok /\ last'.error \in ValidationErrors)
       => UNCHANGED <<dirs, files>>]_vars

\* a patch failed validation in a section that follows a valid one
C2_Witness ==
  /\ last.name = "apply_patch" /\ ~last.ok
  /\ last.error \in ValidationErrors
  /\ last.planned >= 1

\* C3 (as the spec states it): every path resolve returns leads to a
\* place that is a strict descendant of the root, also when a symbolic link
\* is followed, is not an existing directory, and matches no deny rule.
C3_ResolvedInsideRoot ==
  \A p \in UserPaths :
    resolveInRepo(dirs, files, p).ok
      => /\ InRoot(resolveInRepo(dirs, files, p).absPath)
         /\ Destination(dirs, files, resolveInRepo(dirs, files, p).absPath).ok
              => InRoot(Destination(dirs, files, resolveInRepo(dirs, files, p).absPath).path)
         /\ resolveInRepo(dirs, files, p).absPath \notin dirs
         /\ ~isDeniedPath(resolveInRepo(dirs, files, p).relPath)

\* C4 (as the spec states it): write_file or delete_file on a path that
\* exists and has not been read always fails with ReadRequired.
C4_AlwaysReadRequired ==
  (last.name \in {"write_file", "delete_file"} /\ last.existed /\ ~last.wasRead)
    => ~last.ok /\ last.error = "ReadRequired"

\* C4 (amended): for a path resolve accepts that names an existing file,
\* delete_file and a write_file of a content within maxWriteBytes fail with
\* ReadRequired and change nothing while the path is not in the ReadGate,
\* and succeed once it is.
C4_ReadRequiredUntilRead ==
  [][(last'.name \in {"write_file", "delete_file"} /\ last'.resolved /\ last'.existed
        /\ ~last'.tooBig)
       => IF last'.wasRead THEN last'.ok
          ELSE /\ ~last'.ok /\ last'.error = "ReadRequired"
               /\ UNCHANGED <<dirs, files, readGate>>]_vars

\* a write_file over an existing, unread file was refused
C4_Witness ==
  /\ last.name = "write_file" /\ last.resolved /\ last.existed /\ ~last.wasRead
  /\ ~last.tooBig /\ last.error = "ReadRequired"

\* the user path has a segment ".."
HasDotDot(p) == p # NotAString /\ S_dotdot \in SeqToSet(Split(p, "/"))

\* the user path leads, directly or through a symbolic link, outside the root
LeadsOutside(ds, fl, p) ==
  /\ p # NotAString /\ NUL \notin SeqToSet(p) /\ Trim(p) # <<>>
  /\ Destination(ds, fl, PathResolve(RepoRoot, Trim(p))).ok
  /\ ~InRoot(Destination(ds, fl, PathResolve(RepoRoot, Trim(p))).path)
  /\ Destination(ds, fl, PathResolve(RepoRoot, Trim(p))).path # RepoRoot

\* C5 (as the spec states it): resolve fails with PathTraversal for every
\* user path that has a ".." segment or leads outside the root.
C5_TraversalRejected ==
  \A p \in UserPaths :
    (HasDotDot(p) \/ LeadsOutside(dirs, files, p))
      => resolveInRepo(dirs, files, p).err = "PathTraversal"

\* C6 (as the spec states it): resolve fails with AccessDenied for every
\* path that matches a deny rule, compared case-insensitively.
C6_DeniedRejected ==
  \A p \in UserPaths :
    (p # NotAString /\ NUL \notin SeqToSet(p) /\ isDeniedPath(p))
      => resolveInRepo(dirs, files, p).err = "AccessDenied"

\* C7: dispatch never raises; it returns ok with a result or not ok with an
\* error; a name outside the set of operations gives UnknownOperation, and
\* a call made after it is answered as usual.
C7_DispatchNeverRaises ==
  /\ ~last.raised
  /\ last.ok <=> last.error = ""
  /\ last.name \notin ToolNames \cup {""}
       => /\ ~last.ok /\ last.error = "UnknownOperation"
          /\ dispatch(dirs, files, readGate,
                      [name |-> "stat_files_batch", arguments |-> BatchArgs(<<P_a>>)]).ok

\* a call with a name outside the set was answered with a failure
C7_Witness == last.name \in UnknownNames /\ ~last.ok /\ last.error = "UnknownOperation"

\* C8 (as the spec states it): a call that returns a failure leaves the
\* file tree and the ReadGate as they were.
C8_FailureChangesNothing ==
  [][~last'.ok => UNCHANGED <<dirs, files, readGate>>]_vars

\* C9: no call removes a path from the ReadGate, and a call on a path that
\* is in the ReadGate never fails with ReadRequired.
C9_ReadGateGrows ==
  [][/\ readGate \subseteq readGate'
     /\ last'.error = "ReadRequired" => ~last'.wasRead]_vars

\* a delete_file succeeded and the path of the deleted file is still in
\* the ReadGate
C9_Witness ==
  /\ last.name = "delete_file" /\ last.ok /\ last.result.deleted
  /\ last.result.path \in readGate
  /\ PathResolve(RepoRoot, last.result.path) \notin DOMAIN files

\* s with the first occurrence of pat replaced by repl, character for
\* character
LiteralReplace(s, pat, repl) ==
  IF IndexOf(s, pat, 0) = -1 THEN s
  ELSE SubSeq(s, 1, IndexOf(s, pat, 0)) \o repl \o Slice(s, IndexOf(s, pat, 0) + Len(pat))

\* base and after fragments of one-section patches of a.txt
ContextualCases ==
  {[base |-> <<"y">>, after |-> <<"z">>], [base |-> <<"y">>, after |-> <<"$", "$">>]}

ContextualCall(c) ==
  [name |-> "apply_patch",
   arguments |-> PatchArgs(PatchText(Section(P_a, <<Del(c.base), Add(c.after)>>)))]

\* C10 (as the spec states it): in contextual mode the new content is the
\* old content with the one occurrence of the base fragment replaced by the
\* after fragment and a line terminator, character for character.
C10_ContextualIsLiteral ==
  \A c \in ContextualCases :
    (/\ PathResolve(RepoRoot, P_a) \in DOMAIN files
     /\ Join(SplitLines(files[PathResolve(RepoRoot, P_a)]), <<NL>>) # c.base
     /\ CountOccurrences(files[PathResolve(RepoRoot, P_a)], c.base \o <<NL>>, 0) = 1
     /\ dispatch(dirs, files, readGate, ContextualCall(c)).ok)
      => dispatch(dirs, files, readGate, ContextualCall(c)).files[PathResolve(RepoRoot, P_a)]
           = LiteralReplace(files[PathResolve(RepoRoot, P_a)], c.base \o <<NL>>,
                            c.after \o <<NL>>)

\* the places where block occurs in content
Positions(content, block) ==
  {k \in 0..(Len(content) - Len(block)) : SubSeq(content, k + 1, k + Len(block)) = block}

\* base fragments of one-section patches of a.txt: found twice, never, once
FragmentCases == {<<"x">>, <<"q">>, <<"y">>}

FragmentCall(b) ==
  [name |-> "apply_patch",
   arguments |-> PatchArgs(PatchText(Section(P_a, <<Del(b), Add(<<"z">>)>>)))]

ThroughLink(abs) == \E k \in 1..Len(abs) : SubSeq(abs, 1, k) \in DOMAIN Links

\* the file tree with the content of every file that is outside the root
\* or denied replaced by text
Scrub(fl, text) ==
  [f \in DOMAIN fl |->
     IF InRoot(f) /\ ~isDeniedPath(RelString(f)) THEN fl[f] ELSE text]

\* texts searched for: in a.txt, in the target of lout only, in .env only
SearchQueries == {<<"x">>, <<"s">>, <<"k">>}

SearchCall(q) == [name |-> "search_in_files", arguments |-> SearchArgs(q, <<>>)]

\* C12: every match search_in_files returns names a line that contains the
\* query in a regular, non-denied file inside the root that is not reached
\* through a symbolic link, no line is reported twice, and the result is
\* the same when every file outside the root and every denied file holds
\* the query.
C12_SearchStaysInside ==
  \A q \in SearchQueries :
    \A r \in {dispatch(dirs, files, readGate, SearchCall(q))} :
      /\ r.ok
      /\ \A i \in DOMAIN r.result.matches :
           /\ PathResolve(RepoRoot, r.result.matches[i].path) \in DOMAIN files
           /\ InRoot(PathResolve(RepoRoot, r.result.matches[i].path))
           /\ ~ThroughLink(PathResolve(RepoRoot, r.result.matches[i].path))
           /\ ~isDeniedPath(r.result.matches[i].path)
           /\ Includes(r.result.matches[i].text, q)
           /\ \A j \in DOMAIN r.result.matches :
                r.result.matches[i] = r.result.matches[j] => i = j
      /\ dispatch(dirs, Scrub(files, q \o <<NL>>), readGate, SearchCall(q)).result = r.result

\* a search for a text that only the target of the link lout holds,
\* outside the root, found nothing
C12_Witness ==
  /\ last.name = "search_in_files" /\ last.ok
  /\ last.result.query = <<"s">>
  /\ last.result.matches = <<>>
  /\ Includes(files[Links[<<S_t, S_repo, S_lout>>]], <<"s">>)

\* values of maxFiles: below the number of files of the tree, and the one
\* the tools pass
ListerLimits == {1, 2, ListerMaxFiles}

\* C13: the list holds at most maxFiles paths in strictly ascending order,
\* each the path of a regular file under the root that is neither a
\* symbolic link nor below one and matches no deny rule.
C13_ListOnlyRegularFiles ==
  \A m \in ListerLimits :
    \A l \in {listFilesRecursive(dirs, files, m)} :
      /\ Len(l) <= m
      /\ \A i \in 1..Len(l) :
           /\ PathResolve(RepoRoot, l[i]) \in DOMAIN files
           /\ InRoot(PathResolve(RepoRoot, l[i]))
           /\ ~ThroughLink(PathResolve(RepoRoot, l[i]))
           /\ ~isDeniedPath(l[i])
           /\ i < Len(l) => StringLess(l[i], l[i + 1])

\* list_files answered in a tree that holds links and denied files, with a
\* file created during the session in the list
C13_Witness ==
  /\ last.name = "list_files" /\ last.ok
  /\ \E i \in DOMAIN last.result.files : last.result.files[i] = P_new
  /\ <<S_t, S_repo, S_env>> \in DOMAIN files
  /\ \A i \in DOMAIN last.result.files : last.result.files[i] \notin {S_lin, S_lout, S_env}

\* paths read_file_original is asked for: files of the snapshot, a file
\* created later, links, a path below a file, a denied file
OriginalProbes == {P_a, P_big, P_m, P_new, P_lin, P_ldang, P_under, P_env}

OriginalCall(p) == [name |-> "read_file_original", arguments |-> PathArgs(p)]

\* C14 (as the spec states it): the snapshot file stays what capture
\* wrote, and for every path a read_file_original that succeeds returns the
\* existed, bytes and content that the same call returned when the session
\* started.
C14_BaselineReadOnly ==
  /\ BaselinePath \in DOMAIN files
  /\ files[BaselinePath] = StartTree.files[BaselinePath]
  /\ \A p \in OriginalProbes :
       \A r \in {dispatch(dirs, files, readGate, OriginalCall(p))} :
         \A r0 \in {dispatch(StartTree.dirs, StartTree.files, {}, OriginalCall(p))} :
           (r.ok /\ r0.ok) => r.result = r0.result

\* p is strictly below the directory root
IsBelow(p, root) == Len(p) > Len(root) /\ SubSeq(p, 1, Len(root)) = root

\* root directories a session can be started on: the repository of this
\* session, the directory above it, the temporary directory, the root of
\* the file system
RootChoices == {RepoRoot, <<S_t>>, TmpDir, <<>>}

\* C15 (as the spec states it): for every root directory the location
\* capture writes the snapshot to lies outside the root.
C15_SnapshotOutsideRoot ==
  \A root \in RootChoices :
    root \in dirs \cup {<<>>} => ~IsBelow(BaselinePathOf(TmpDir, S_hash), root)

\* the calls of the four operations that load the snapshot
SnapshotCalls ==
  {[name |-> "get_baseline_info", arguments |-> NoArguments],
   [name |-> "list_changed_files", arguments |-> ListArgs(<<>>, DefaultListLimit)]}
  \cup {[name |-> "read_file_original", arguments |-> PathArgs(p)] : p \in {P_a, P_new, P_env}}
  \cup {[name |-> "diff_file_against_original", arguments |-> DiffArgs(p, <<>>, DefaultMaxLines)] :
          p \in {P_a, P_new, P_env}}

\* the call reaches loadBaseline: it has no path, or its path resolves
LoadsSnapshot(c) ==
  c.arguments.path = NotAString \/ resolveInRepo(dirs, files, c.arguments.path).ok

NotConfigured == baselinePath = NoBaselinePath
SnapshotMissing == ~NotConfigured /\ ~ExistsSync(dirs, files, baselinePath)
SnapshotMalformed ==
  /\ ~NotConfigured /\ ExistsSync(dirs, files, baselinePath)
  /\ files[baselinePath] \in {NotJson, JsonWithoutFiles}
SnapshotInsideRoot == ~NotConfigured /\ InRoot(RealCandidate(dirs, files, baselinePath).path)

RECURSIVE LinesOf(_, _)
LinesOf(ops, types) ==
  IF ops = <<>> THEN <<>>
  ELSE (IF Head(ops).type \in types THEN Head(ops).lines ELSE <<>>) \o LinesOf(Tail(ops), types)

RECURSIVE IsSubsequence(_, _)
IsSubsequence(s, t) ==
  IF s = <<>> THEN TRUE
  ELSE IF t = <<>> THEN FALSE
  ELSE IF Head(s) = Head(t) THEN IsSubsequence(Tail(s), Tail(t))
  ELSE IsSubsequence(s, Tail(t))

\* the length of a longest common subsequence, found by trying every
\* sequence of lines
LcsLength(a, b) ==
  LET common == {c \in LineSeqs : IsSubsequence(c, a) /\ IsSubsequence(c, b)}
  IN CHOOSE n \in 0..MaxDiffLines :
       /\ \E c \in common : Len(c) = n
       /\ \A c \in common : Len(c) <= n

\* C18: the ops of diffLines(a, b) turn a into b; the lines of their equal
\* runs are a common subsequence of a and b of the greatest length there
\* is, so the removed and added lines together are as few as can be.
C18_EqualRunsAreLcs ==
  lineDiff.stage \in {"ops", "text"}
    => \A eq \in {LinesOf(lineDiff.ops, {"equal"})} :
         \A lcs \in {LcsLength(lineDiff.a, lineDiff.b)} :
           /\ LinesOf(lineDiff.ops, {"equal", "remove"}) = lineDiff.a
           /\ LinesOf(lineDiff.ops, {"equal", "add"}) = lineDiff.b
           /\ IsSubsequence(eq, lineDiff.a) /\ IsSubsequence(eq, lineDiff.b)
           /\ Len(eq) = lcs
           /\ CountLines(lineDiff.ops, "remove") + CountLines(lineDiff.ops, "add")
                = Len(lineDiff.a) + Len(lineDiff.b) - 2 * lcs

C18_Witness ==
  /\ lineDiff.stage = "ops"
  /\ lineDiff.a = <<<<"x">>, <<"y">>>> /\ lineDiff.b = <<<<"y">>, <<"x">>, <<"y">>>>
  /\ Len(LinesOf(lineDiff.ops, {"equal"})) = 2
  /\ CountLines(lineDiff.ops, "add") = 1 /\ CountLines(lineDiff.ops, "remove") = 0

\* the prefix of every line of the ops, in order
RECURSIVE MarksOf(_)
MarksOf(ops) ==
  IF ops = <<>> THEN <<>>
  ELSE [k \in 1..Len(Head(ops).lines) |->
          IF Head(ops).type = "equal" THEN " " ELSE IF Head(ops).type = "add" THEN "+" ELSE "-"]
       \o MarksOf(Tail(ops))

\* max_lines brought into 1..10000
EffectiveMaxLines(m) == IF m < 1 THEN 1 ELSE IF m > MaxMaxLines THEN MaxMaxLines ELSE m

\* C19: the rendered diff is the line --- a/<path>, the line +++ b/<path>
\* and then the first min(max_lines, number of op lines) lines of the ops
\* in order, each behind the prefix of its run, and no other line;
\* max_lines is brought into 1..10000 first, and is 2000 when not given.
C19_RenderedBody ==
  lineDiff.stage = "text"
    => \A out \in {Split(lineDiff.text, "\n")} :
         \A all \in {LinesOf(lineDiff.ops, {"equal", "add", "remove"})} :
           \A shown \in {IF EffectiveMaxLines(lineDiff.maxLines) < Len(all)
                          THEN EffectiveMaxLines(lineDiff.maxLines) ELSE Len(all)} :
             /\ Len(out) = 2 + shown
             /\ out[1] = <<"-", "-", "-", " ", "a", "/">> \o P_a
             /\ out[2] = <<"+", "+", "+", " ", "b", "/">> \o P_a
             /\ \A k \in 1..shown : out[2 + k] = <<MarksOf(lineDiff.ops)[k]>> \o all[k]
             /\ DefaultMaxLines = 2000 /\ MaxMaxLines = 10000

C19_Witness ==
  /\ lineDiff.stage = "text" /\ lineDiff.maxLines = 2
  /\ Len(LinesOf(lineDiff.ops, {"equal", "add", "remove"})) > 2
  /\ CountLines(lineDiff.ops, "add") > 0 /\ CountLines(lineDiff.ops, "remove") > 0
  /\ Len(Split(lineDiff.text, "\n")) = 4

\* the diff_text is the two header lines and one marker line
IsOmittedText(text) ==
  \A out \in {Split(text, "\n")} :
    /\ Len(out) = 3
    /\ out[1] = <<"-", "-", "-", " ", "a", "/">> \o P_a
    /\ out[2] = <<"+", "+", "+", " ", "b", "/">> \o P_a
    /\ out[3][1] = "@@ DIFF OMITTED: "

\* the diff_text is the two header lines and lines of the ops
IsLineDiffText(text, maxLines) ==
  \A out \in {Split(text, "\n")} :
    /\ Len(out) > 2 /\ Len(out) <= 2 + maxLines
    /\ \A k \in 3..Len(out) : out[k][1] \in {" ", "+", "-"}

\* C20: when the two sides have more than 10,000 lines together,
\* diff_file_against_original reports modified exactly when the byte
\* lengths or the hashes differ, counts no added and no removed line,
\* gives a note, and its diff_text is the two headers and one marker line,
\* as is that of diff_file_against_current; with 10,000 lines together or
\* fewer both give the line diff, and the lines added and removed are counted.
C20_LineBudget ==
  /\ LCS_MAX_TOTAL_LINES = 10000
  /\ (lineDiff.stage = "contents" /\ Len(lineDiff.a) <= MaxShortLines)
       => SplitLines(lineDiff.baseContent) = lineDiff.a
  /\ lineDiff.stage = "original"
       => \A r \in {lineDiff.result} :
            IF Len(lineDiff.a) + Len(lineDiff.b) > 10000
            THEN /\ r.status = (IF Len(lineDiff.baseContent) # Len(lineDiff.currentContent)
                                    \/ lineDiff.baseContent # lineDiff.currentContent
                                 THEN "modified" ELSE "unchanged")
                 /\ r.summary.added_lines = 0 /\ r.summary.removed_lines = 0
                 /\ r.summary.before_bytes = Len(lineDiff.baseContent)
                 /\ r.summary.after_bytes = Len(lineDiff.currentContent)
                 /\ r.note = "omitted-lines"
                 /\ IsOmittedText(r.diff_text)
            ELSE /\ r.note = ""
                 /\ r.status = (IF lineDiff.a = lineDiff.b THEN "unchanged" ELSE "modified")
                 /\ r.summary.added_lines - r.summary.removed_lines
                      = Len(lineDiff.b) - Len(lineDiff.a)
                 /\ IsLineDiffText(r.diff_text, lineDiff.maxLines)
  /\ lineDiff.stage = "current"
       => IF Len(lineDiff.a) + Len(lineDiff.b) > 10000
          THEN IsOmittedText(lineDiff.result.diff_text)
          ELSE IsLineDiffText(lineDiff.result.diff_text, lineDiff.maxLines)

C20_Witness ==
  /\ lineDiff.stage = "original"
  /\ Len(lineDiff.a) + Len(lineDiff.b) = LCS_MAX_TOTAL_LINES + 1
  /\ lineDiff.a[1] = lineDiff.b[1]
  /\ lineDiff.result.status = "modified" /\ lineDiff.result.note = "omitted-lines"

\* the entry the snapshot holds for a path
BaselineHas(rel) == rel \in DOMAIN files[BaselinePath].files
BaselineOf(rel) == files[BaselinePath].files[rel]

\* C21: for a path whose snapshot entry has no content and whose file
\* exists, diff_file_against_original succeeds, reports modified exactly
\* when the size of the file differs from the size in the entry, counts no
\* lines, gives no diff text, and always gives the size-only note.
C21_SizeOnlyWithNote ==
  (/\ BaselineHas(P_big) /\ BaselineOf(P_big).content = Null
   /\ PathResolve(RepoRoot, P_big) \in DOMAIN files)
    => \A r \in {dispatch(dirs, files, readGate,
                          [name |-> "diff_file_against_original",
                           arguments |-> DiffArgs(P_big, <<>>, DefaultMaxLines)])} :
         /\ r.ok
         /\ r.result.status
              = (IF Len(files[PathResolve(RepoRoot, P_big)]) # BaselineOf(P_big).bytes
                 THEN "modified" ELSE "unchanged")
         /\ r.result.note = "size-only"
         /\ r.result.summary.before_bytes = MaxReadBytes + 1
         /\ r.result.summary.after_bytes = Len(files[PathResolve(RepoRoot, P_big)])
         /\ r.result.summary.added_lines = 0 /\ r.result.summary.removed_lines = 0
         /\ r.result.diff_text = Null

\* the file was rewritten with other bytes of the same number, and the
\* diff called it unchanged, with the note
C21_Witness ==
  /\ last.name = "diff_file_against_original" /\ last.ok
  /\ last.result.path = P_big /\ last.result.status = "unchanged"
  /\ last.result.note = "size-only"
  /\ PathResolve(RepoRoot, P_big) \in DOMAIN files
  /\ files[PathResolve(RepoRoot, P_big)] # BigContent

\* C22: a diff_file_against_current call, whether it succeeds or fails,
\* leaves the directories, the files (the snapshot among them) and the
\* ReadGate as they were; for a target that does not exist it succeeds and
\* shows the proposed text against one empty line, as for an empty file.
C22_CurrentDiffReadOnly ==
  [][last'.name = "diff_file_against_current"
       => /\ dirs' = dirs /\ files' = files /\ readGate' = readGate
          /\ (last'.resolved /\ ~last'.existed)
               => /\ last'.ok
                  /\ Split(last'.result.diff_text, "\n")
                       = <<<<"-", "-", "-", " ", "a", "/">> \o last'.result.path,
                           <<"+", "+", "+", " ", "b", "/">> \o last'.result.path,
                           <<"-">>, <<"+", "z">>>>]_vars

C22_Witness ==
  /\ last.name = "diff_file_against_current" /\ last.ok
  /\ last.result.path = P_new /\ ~last.existed
  /\ PathResolve(RepoRoot, P_new) \notin DOMAIN files
  /\ readGate # {}

\* section bodies for a file that does not exist, with the base and the
\* after fragment each one spells out
NewFileCases ==
  {[body |-> <<Add(<<"z">>)>>, base |-> <<>>, after |-> <<"z">>],
   [body |-> <<Del(<<" ">>), Add(<<"z">>)>>, base |-> <<" ">>, after |-> <<"z">>],
   [body |-> <<Ctx(<<>>), Add(<<"z">>)>>, base |-> <<>>, after |-> <<"\n", "z">>],
   [body |-> <<Del(<<"q">>), Add(<<"z">>)>>, base |-> <<"q">>, after |-> <<"z">>],
   [body |-> <<Add(TooBigContent)>>, base |-> <<>>, after |-> TooBigContent]}
NewFileTargets == {P_new, P_n, P_ldang, P_under}

NewFileCall(t, c) ==
  [name |-> "apply_patch", arguments |-> PatchArgs(PatchText(Section(t, c.body)))]

\* the target of the section resolves and is no existing regular file
IsNewTarget(t) ==
  \A r \in {resolveInRepo(dirs, files, t)} :
    r.ok /\ ~(ExistsSync(dirs, files, r.absPath) /\ StatIsFile(dirs, files, r.absPath))

\* C23 (as stated): a one-section patch for a file that does not exist
\* fails with NewFileBaseNotEmpty when the base fragment has a character
\* that is not white space, and otherwise creates the file with the after
\* fragment as its content and reports created, read or not.
C23_NewFileCreated ==
  \A t \in NewFileTargets : \A c \in NewFileCases :
    IsNewTarget(t) =>
      \A r \in {dispatch(dirs, files, readGate, NewFileCall(t, c))} :
        IF Trim(c.base) # <<>>
        THEN ~r.ok /\ r.error = "NewFileBaseNotEmpty" /\ r.files = files /\ r.dirs = dirs
        ELSE /\ r.ok
             /\ r.result.files[1].status = "created"
             /\ ReadFileSync(r.dirs, r.files, PathResolve(RepoRoot, t)) = c.after

\* C23 (amended): such a patch fails with NewFileBaseNotEmpty when the base
\* fragment has a character that is not white space, with TooLarge when
\* the after fragment is longer than maxWriteBytes, and with the error of
\* mkdir when the parent of the target is a regular file, each time
\* writing nothing; otherwise it creates the file with the after fragment
\* as its content and reports created. No read is asked for.
C23_NewFileCreatedIfWritable ==
  \A t \in NewFileTargets : \A c \in NewFileCases :
    IsNewTarget(t) =>
      \A r \in {dispatch(dirs, files, readGate, NewFileCall(t, c))} :
        IF Trim(c.base) # <<>>
        THEN ~r.ok /\ r.error = "NewFileBaseNotEmpty" /\ r.files = files /\ r.dirs = dirs
        ELSE IF Len(c.after) > MaxWriteBytes
        THEN ~r.ok /\ r.error = "TooLarge" /\ r.files = files /\ r.dirs = dirs
        ELSE IF Parent(PathResolve(RepoRoot, t)) \in DOMAIN files
        THEN ~r.ok /\ r.error = "EEXIST" /\ r.files = files /\ r.dirs = dirs
        ELSE /\ r.ok
             /\ Len(r.result.files) = 1
             /\ r.result.files[1].status = "created"
             /\ ~r.result.files[1].existed_before
             /\ r.result.files[1].after_bytes = Len(c.after)
             /\ ReadFileSync(r.dirs, r.files, PathResolve(RepoRoot, t)) = c.after
             /\ r.gate = readGate

\* new.txt, never read, was created by a patch
C23_Witness ==
  /\ last.name = "apply_patch" /\ last.ok
  /\ Len(last.result.files) = 1
  /\ last.result.files[1].path = P_new /\ last.result.files[1].status = "created"
  /\ P_new \notin readGate
  /\ files[PathResolve(RepoRoot, P_new)] = <<"z">>

\* after fragments, as lines
WholeFileAfters == {<<<<"z">>>>, <<<<"q">>, <<>>>>, <<<<"$", "$">>>>, <<TooBigContent>>}
WholeFileTargets == {P_a, P_new}

\* a section whose removed lines are the lines of the content, all of them
WholeFileCall(t, content, after) ==
  [name |-> "apply_patch",
   arguments |-> PatchArgs(PatchText(Section(t,
     [i \in 1..Len(SplitLines(content)) |-> Del(SplitLines(content)[i])]
     \o [i \in 1..Len(after) |-> Add(after[i])])))]

\* the target is a regular file that was read in this run
IsReadFile(t) ==
  PathResolve(RepoRoot, t) \in DOMAIN files /\ t \in readGate

\* C24 (as stated): a patch whose base fragment is the whole content of a
\* file that exists and was read makes the after fragment the content of
\* the file, however often the base occurs in it.
C24_WholeFileReplaced ==
  \A t \in WholeFileTargets : \A after \in WholeFileAfters :
    IsReadFile(t) =>
      \A r \in {dispatch(dirs, files, readGate,
                          WholeFileCall(t, files[PathResolve(RepoRoot, t)], after))} :
        /\ r.ok
        /\ r.files[PathResolve(RepoRoot, t)] = Join(after, <<"\n">>)

\* C24 (amended): such a patch makes the after fragment the content of the
\* file and changes no other file, provided the after fragment is within
\* maxWriteBytes; a longer one fails with TooLarge and changes nothing. The
\* occurrences of the base are not counted either way.
C24_WholeFileReplacedIfSmall ==
  \A t \in WholeFileTargets : \A after \in WholeFileAfters :
    IsReadFile(t) =>
      \A r \in {dispatch(dirs, files, readGate,
                          WholeFileCall(t, files[PathResolve(RepoRoot, t)], after))} :
        IF Len(Join(after, <<"\n">>)) > MaxWriteBytes
        THEN ~r.ok /\ r.error = "TooLarge" /\ r.files = files /\ r.dirs = dirs
        ELSE /\ r.ok
             /\ r.files[PathResolve(RepoRoot, t)] = Join(after, <<"\n">>)
             /\ DOMAIN r.files = DOMAIN files
             /\ \A f \in DOMAIN files : f # PathResolve(RepoRoot, t) => r.files[f] = files[f]
             /\ r.result.files[1].existed_before

\* a.txt, read, was replaced as a whole by a patch that removes its three
\* lines and so names a base that occurs nowhere as a block
C24_Witness ==
  /\ last.name = "apply_patch" /\ last.ok
  /\ Len(last.result.files) = 1
  /\ last.result.files[1].path = P_a /\ last.result.files[1].existed_before
  /\ last.result.files[1].before_bytes = 6 /\ last.result.files[1].after_bytes = 1
  /\ files[PathResolve(RepoRoot, P_a)] = <<"z">>

\* lines that start with none of space, '+' and '-'
OtherLines == {<<>>, <<"?", "z">>, <<"z">>, <<"@", "@">>, <<"\\", " ", "N">>}
OtherLineTargets == {P_new, P_a, P_up}

InsertAt(s, k, e) == SubSeq(s, 1, k) \o <<e>> \o SubSeq(s, k + 1, Len(s))

\* patches of one or two sections with well-formed headers, valid but for
\* one line put somewhere into the body of the last section
OtherLinePatches ==
  {PatchText(pre \o Section(t, InsertAt(<<Del(<<"y">>), Add(<<"z">>)>>, k, l))) :
     pre \in {<<>>, GoodSection}, t \in OtherLineTargets, k \in 0..2, l \in OtherLines}
  \cup {PatchText(Section(t, InsertAt(<<Add(<<"z">>)>>, k, l)) \o GoodSection) :
     t \in OtherLineTargets, k \in 0..1, l \in OtherLines}
  \cup {PatchText(GoodSection) \o <<"\n">>,
        PatchText(GoodSection) \o <<"\r", "\n">>}

\* C25: a patch with a body line that starts with none of space, '+' and
\* '-', an empty line included, fails with InvalidPatchLine, whatever its
\* sections name, and leaves the tree and the ReadGate as they were.
C25_OtherLineRejected ==
  \A t \in OtherLinePatches :
    \A r \in {dispatch(dirs, files, readGate,
                        [name |-> "apply_patch", arguments |-> PatchArgs(t)])} :
      /\ ~r.raised /\ ~r.ok /\ r.error = "InvalidPatchLine"
      /\ r.files = files /\ r.dirs = dirs /\ r.gate = readGate

\* a patch was refused for one of its lines while a.txt, read, could have
\* been patched and new.txt could have been created
C25_Witness ==
  /\ last.name = "apply_patch" /\ ~last.ok /\ last.error = "InvalidPatchLine"
  /\ last.planned = 0
  /\ P_a \in readGate
  /\ PathResolve(RepoRoot, P_new) \notin DOMAIN files

\* reads in batches and the writes and deletions they open the way to
GateNext == ReadFilesBatch \/ WriteFile \/ DeleteFile

GateSpec == Init /\ [][GateNext]_vars

BatchCases ==
  {<<P_a, P_big>>, <<P_new, P_env>>, <<P_lin, P_src, P_up>>, <<P_ldang, P_a, P_a>>}

\* the user path names a regular file of at most maxReadBytes bytes that
\* resolveInRepo accepts
BatchReadable(p) ==
  \A r \in {resolveInRepo(dirs, files, p)} :
    /\ r.ok
    /\ ExistsSync(dirs, files, r.absPath) /\ StatIsFile(dirs, files, r.absPath)
    /\ StatSize(dirs, files, r.absPath) <= MaxReadBytes

\* C26: read_files_batch succeeds whatever its paths are, returns content
\* exactly for the readable ones and a note for the others, adds to the
\* ReadGate the paths with content and no other, changes no file, and a
\* write_file on a path it read then succeeds.
C26_BatchMarksWhatItRead ==
  \A ps \in BatchCases :
    \A r \in {dispatch(dirs, files, readGate,
                        [name |-> "read_files_batch", arguments |-> BatchArgs(ps)])} :
      /\ ~r.raised /\ r.ok /\ Len(r.result) = Len(ps)
      /\ r.files = files /\ r.dirs = dirs
      /\ r.gate = readGate \cup {r.result[i].path :
                                  i \in {j \in 1..Len(ps) : r.result[j].content # Null}}
      /\ \A i \in 1..Len(ps) :
           /\ (r.result[i].content # Null) = BatchReadable(ps[i])
           /\ (r.result[i].content = Null) = (r.result[i].note # "")
           /\ r.result[i].content # Null =>
                \A w \in {dispatch(r.dirs, r.files, r.gate,
                                    [name |-> "write_file",
                                     arguments |-> WriteArgs(ps[i], <<"z">>)])} :
                  w.ok /\ w.files[PathResolve(RepoRoot, r.result[i].path)] = <<"z">>

\* a batch read a.txt and reported big.txt with a note; a.txt is marked,
\* big.txt is not
C26_Witness ==
  /\ last.name = "read_files_batch" /\ last.ok
  /\ Len(last.result) = 2
  /\ last.result[1].path = P_a /\ last.result[1].content # Null
  /\ last.result[2].path = P_big /\ last.result[2].note = "too_large"
  /\ P_a \in readGate /\ P_big \notin readGate

\* the start of a later run on the tree as it is: createBaseline(sandbox),
\* then new RepoTools(sandbox) with an empty ReadGate
Capture ==
  \E t \in {createBaseline(dirs, files)} :
    /\ dirs' = t.dirs /\ files' = t.files
    /\ readGate' = {}
    /\ last' = [NoCall EXCEPT !.name = "createBaseline"]
    /\ UNCHANGED <<baselinePath, lineDiff, run, calls>>

CaptureNext == OutsideWrite \/ OutsideRemove \/ Capture

CaptureSpec == Init /\ [][CaptureNext]_vars

\* C27: right after a capture the snapshot has an entry exactly for the
\* paths the Tree Lister returns, each with the byte length of the file,
\* and with the content of the file when that length is at most
\* maxReadBytes, with no content otherwise.
C27_SnapshotOfListedFiles ==
  last.name = "createBaseline" =>
    \A snap \in {files[BaselinePath]} :
      /\ DOMAIN snap.files = SeqToSet(listFilesRecursive(dirs, files, ListerMaxFiles))
      /\ SeqToSet(snap.keys) = DOMAIN snap.files
      /\ \A rel \in DOMAIN snap.files :
           /\ snap.files[rel].bytes = Len(files[PathResolve(RepoRoot, rel)])
           /\ snap.files[rel].content =
                IF Len(files[PathResolve(RepoRoot, rel)]) <= MaxReadBytes
                THEN files[PathResolve(RepoRoot, rel)] ELSE Null

\* a capture of a tree where new.txt has been created with more than
\* maxReadBytes bytes and a.txt has been rewritten
C27_Witness ==
  /\ last.name = "createBaseline"
  /\ BaselineHas(P_new) /\ BaselineOf(P_new).content = Null
  /\ BaselineOf(P_new).bytes = MaxReadBytes + 1
  /\ BaselineHas(P_a) /\ BaselineOf(P_a).content = <<"z", "\n">>
  /\ BaselineHas(P_big) /\ BaselineOf(P_big).content = <<"z", "\n">>

ChangedPrefixes == {<<>>, <<"s">>, <<"a">>}
ChangedLimits == {DefaultListLimit, 1}

\* the three conditions of the comparison against the baseline, for the
\* set of paths listed now
IsAddedPath(listed, p) == p \in listed /\ ~BaselineHas(p)
IsDeletedPath(listed, p) == BaselineHas(p) /\ p \notin listed
IsModifiedPath(listed, p) ==
  /\ p \in listed /\ BaselineHas(p)
  /\ \/ Len(files[PathResolve(RepoRoot, p)]) # BaselineOf(p).bytes
     \/ /\ BaselineOf(p).content # Null
        /\ files[PathResolve(RepoRoot, p)] # BaselineOf(p).content

ChangedCall(prefix, limit) ==
  [name |-> "list_changed_files", arguments |-> ListArgs(prefix, limit)]

\* the list holds exactly the paths with the prefix that meet the condition
ListExact(list, paths, prefix, Cond(_)) ==
  \A p \in paths : StartsWith(p, prefix) => ((p \in SeqToSet(list)) = Cond(p))

\* the paths of the list meet the condition and match the prefix, and a
\* path that meets the condition and matches the prefix is missing only
\* from a list of limit entries
ListUpTo(list, limit, paths, prefix, Cond(_)) ==
  /\ Len(list) <= limit
  /\ \A i \in 1..Len(list) : StartsWith(list[i], prefix) /\ Cond(list[i])
  /\ \A i, j \in 1..Len(list) : i # j => list[i] # list[j]
  /\ Len(list) < limit =>
       \A p \in paths : (StartsWith(p, prefix) /\ Cond(p)) => p \in SeqToSet(list)

Disjoint3(a, b, c) ==
  /\ SeqToSet(a) \cap SeqToSet(b) = {}
  /\ SeqToSet(a) \cap SeqToSet(c) = {}
  /\ SeqToSet(b) \cap SeqToSet(c) = {}

\* C28 (as stated): among the paths that match the prefix, each of the
\* lists added, deleted and modified holds exactly the paths that meet
\* its condition, and the lists are pairwise disjoint.
C28_ChangedListsExact ==
  \A listed \in {SeqToSet(listFilesRecursive(dirs, files, ListerMaxFiles))} :
    \A prefix \in ChangedPrefixes, limit \in ChangedLimits :
      \A r \in {dispatch(dirs, files, readGate, ChangedCall(prefix, limit))} :
        /\ r.ok
        /\ ListExact(r.result.added, listed \cup DOMAIN files[BaselinePath].files, prefix,
                     LAMBDA p : IsAddedPath(listed, p))
        /\ ListExact(r.result.deleted, listed \cup DOMAIN files[BaselinePath].files, prefix,
                     LAMBDA p : IsDeletedPath(listed, p))
        /\ ListExact(r.result.modified, listed \cup DOMAIN files[BaselinePath].files, prefix,
                     LAMBDA p : IsModifiedPath(listed, p))
        /\ Disjoint3(r.result.added, r.result.deleted, r.result.modified)

\* C28 (amended): each of the three lists holds paths that match the
\* prefix and meet its condition, at most limit of them, and all of them
\* when they are fewer than limit; the lists are pairwise disjoint.
C28_ChangedListsUpToLimit ==
  \A listed \in {SeqToSet(listFilesRecursive(dirs, files, ListerMaxFiles))} :
    \A prefix \in ChangedPrefixes, limit \in ChangedLimits :
      \A r \in {dispatch(dirs, files, readGate, ChangedCall(prefix, limit))} :
        /\ r.ok /\ r.files = files /\ r.gate = readGate
        /\ ListUpTo(r.result.added, limit, listed \cup DOMAIN files[BaselinePath].files,
                    prefix, LAMBDA p : IsAddedPath(listed, p))
        /\ ListUpTo(r.result.deleted, limit, listed \cup DOMAIN files[BaselinePath].files,
                    prefix, LAMBDA p : IsDeletedPath(listed, p))
        /\ ListUpTo(r.result.modified, limit, listed \cup DOMAIN files[BaselinePath].files,
                    prefix, LAMBDA p : IsModifiedPath(listed, p))
        /\ Disjoint3(r.result.added, r.result.deleted, r.result.modified)

\* new.txt was created, a.txt got another content of the same length and
\* big.txt, whose content the baseline does not hold, likewise: the call
\* reports new.txt as added and a.txt alone as modified
C28_Witness ==
  /\ last.name = "list_changed_files" /\ last.ok
  /\ last.result.added = <<P_new>>
  /\ last.result.modified = <<P_a>>
  /\ last.result.deleted = <<>>
  /\ files[PathResolve(RepoRoot, P_a)] = <<"x", "\n", "q", "\n", "x", "\n">>
  /\ files[PathResolve(RepoRoot, P_big)] = [i \in 1..(MaxReadBytes + 1) |-> "y"]

\* ------------------------------------------------------------------------
\* dispatch called without waiting for the earlier results
\* ------------------------------------------------------------------------

MaxIssued == 3

ConcurrentCalls ==
  {[name |-> "read_file", arguments |-> PathArgs(P_a)],
   [name |-> "write_file", arguments |-> WriteArgs(P_a, <<"z">>)],
   [name |-> "delete_file", arguments |-> PathArgs(P_a)],
   [name |-> "write_file", arguments |-> WriteArgs(P_new, <<"z">>)]}

\* a body of dispatch that waits for its write
Yields_OnWrite(call) == call.name = "write_file"

\* the body of dispatch gives up control before it is through: it has no
\* await, and the operations use the synchronous file system calls only
Yields(call) == FALSE

\* tools.dispatch(call), not awaited: an async function runs up to its
\* first await within the call, here to its return; the promise it
\* returns is settled later
Issue ==
  \E call \in ConcurrentCalls :
    \E d \in {Dispatched(call)} :
      /\ Len(calls.issued) < MaxIssued
      /\ calls' = [issued |-> Append(calls.issued, call),
                   promises |-> Append(calls.promises,
                                       [settled |-> FALSE, suspended |-> Yields(call),
                                        dirs |-> d.dirs, files |-> d.files,
                                        gate |-> d.gate, value |-> d.last])]
      /\ IF Yields(call)
         THEN UNCHANGED <<dirs, files, readGate, last>>
         ELSE dirs' = d.dirs /\ files' = d.files /\ readGate' = d.gate /\ last' = d.last
      /\ UNCHANGED <<baselinePath, lineDiff, run>>

\* the microtask of the oldest pending promise: the rest of a suspended
\* body, then the result reaches the caller
Settle ==
  \E i \in 1..Len(calls.promises) :
    /\ ~calls.promises[i].settled
    /\ \A j \in 1..(i - 1) : calls.promises[j].settled
    /\ calls' = [calls EXCEPT !.promises[i].settled = TRUE, !.promises[i].suspended = FALSE]
    /\ IF calls.promises[i].suspended
       THEN /\ dirs' = calls.promises[i].dirs /\ files' = calls.promises[i].files
            /\ readGate' = calls.promises[i].gate /\ last' = calls.promises[i].value
       ELSE UNCHANGED <<dirs, files, readGate, last>>
    /\ UNCHANGED <<baselinePath, lineDiff, run>>

ConcurrentNext == Issue \/ Settle

ConcurrentSpec == Init /\ [][ConcurrentNext]_vars

\* the calls made one after the other, each awaited, from the given state
RECURSIVE InOrder(_, _, _, _, _)
InOrder(ds, fl, g, issued, i) ==
  IF i > Len(issued) THEN [dirs |-> ds, files |-> fl, gate |-> g, results |-> <<>>]
  ELSE LET r == dispatch(ds, fl, g, issued[i])
           rest == InOrder(r.dirs, r.files, r.gate, issued, i + 1)
       IN [rest EXCEPT !.results = <<[ok |-> r.ok, error |-> r.error, result |-> r.result]>> \o @]

\* C29: whatever calls have been issued, and whichever of their promises
\* are still pending, the file tree and the ReadGate are those that the
\* same calls leave when each is made in the order of issue and awaited
\* before the next, and every call got the result that it gets then.
C29_IssueOrder ==
  \A s \in {InOrder(StartTree.dirs, StartTree.files, {}, calls.issued, 1)} :
    /\ dirs = s.dirs /\ files = s.files /\ readGate = s.gate
    /\ Len(calls.promises) = Len(calls.issued)
    /\ \A i \in 1..Len(calls.issued) :
         /\ calls.promises[i].value.ok = s.results[i].ok
         /\ calls.promises[i].value.error = s.results[i].error
         /\ calls.promises[i].value.result = s.results[i].result

\* three calls issued with no promise settled yet: the write of a.txt
\* failed for want of a read, the read that followed succeeded, and the
\* deletion issued last went through because of that read
C29_Witness ==
  /\ Len(calls.issued) = 3
  /\ \A i \in 1..3 : ~calls.promises[i].settled
  /\ calls.issued[1].name = "write_file" /\ calls.promises[1].value.error = "ReadRequired"
  /\ calls.issued[2].name = "read_file" /\ calls.promises[2].value.ok
  /\ calls.issued[3].name = "delete_file" /\ calls.promises[3].value.ok
  /\ PathResolve(RepoRoot, P_a) \notin DOMAIN files

\* ------------------------------------------------------------------------
\* runAgent: the loop over the function calls of the model
\* ------------------------------------------------------------------------

DefaultMaxToolCalls == 50
MaxToolCallsCap == 50

\* opts.maxToolCalls left out
NoOption == 0 - 1000

ToolCallOptions == {NoOption, 0 - 2, 0, 2, MaxToolCallsCap + 1}

\* Math.max(1, Math.min(opts.maxToolCalls ?? 50, 50))
maxToolCallsOf(option) ==
  Clamp(IF option = NoOption THEN DefaultMaxToolCalls ELSE option, 1, MaxToolCallsCap)

\* a test that lets one more call through
LimitExceeded_Late(toolCallsUsed, maxToolCalls) == toolCallsUsed > maxToolCalls + 1

\* if (toolCallsUsed > maxToolCalls)
LimitExceeded(toolCallsUsed, maxToolCalls) == toolCallsUsed > maxToolCalls

\* the function_call items of one response of the model
ModelResponses ==
  {<<>>,
   <<[name |-> "read_file", arguments |-> PathArgs(P_a)]>>,
   <<[name |-> "write_file", arguments |-> WriteArgs(P_a, <<"z">>)],
     [name |-> "read_file", arguments |-> PathArgs(P_a)]>>}

\* runAgent up to its first request: the snapshot, the tools, the limit
AgentInit ==
  /\ dirs = StartTree.dirs
  /\ files = StartTree.files
  /\ readGate = {}
  /\ baselinePath = BaselinePath
  /\ lineDiff = NoLineDiff
  /\ last = NoCall
  /\ calls = NoCalls
  /\ \E option \in ToolCallOptions :
       run = [status |-> "request", option |-> option,
              maxToolCalls |-> maxToolCallsOf(option), toolCallsUsed |-> 0,
              dispatched |-> 0, functionCalls |-> <<>>, error |-> ""]

\* response = await requestWithRetry(...): without function calls the loop
\* ends, with some the for loop over them begins
ModelResponds ==
  /\ run.status = "request"
  /\ \E items \in ModelResponses :
       run' = [run EXCEPT !.status = IF items = <<>> THEN "end" ELSE "tools",
                          !.functionCalls = items]
  /\ UNCHANGED <<dirs, files, readGate, baselinePath, last, lineDiff, calls>>

\* one turn of the for loop: count the call, throw at the limit, else
\* await tools.dispatch; after the last item the follow-up request
ToolCallTurn ==
  /\ run.status = "tools"
  /\ IF LimitExceeded(run.toolCallsUsed + 1, run.maxToolCalls)
     THEN /\ run' = [run EXCEPT !.status = "thrown", !.toolCallsUsed = @ + 1,
                                 !.error = "Tool call limit exceeded"]
          /\ UNCHANGED <<dirs, files, readGate, last>>
     ELSE \E d \in {Dispatched(Head(run.functionCalls))} :
            /\ dirs' = d.dirs /\ files' = d.files /\ readGate' = d.gate /\ last' = d.last
            /\ run' = [run EXCEPT !.toolCallsUsed = @ + 1, !.dispatched = @ + 1,
                                   !.functionCalls = Tail(@),
                                   !.status = IF Len(run.functionCalls) = 1
                                              THEN "request" ELSE "tools"]
  /\ UNCHANGED <<baselinePath, lineDiff, calls>>

AgentNext == ModelResponds \/ ToolCallTurn

AgentSpec == AgentInit /\ [][AgentNext]_vars

\* the option as the claim clamps it
ClampedOption(option) ==
  IF option = NoOption THEN 50
  ELSE IF option < 1 THEN 1 ELSE IF option > 50 THEN 50 ELSE option

\* the state of a run that has kept to its limit
RunWithinLimit(r) ==
  /\ r.maxToolCalls = ClampedOption(r.option)
  /\ r.dispatched <= r.maxToolCalls
  /\ r.status = "thrown" =>
       /\ r.error = "Tool call limit exceeded"
       /\ r.dispatched = r.maxToolCalls
       /\ r.functionCalls # <<>>

\* C30: a run dispatches at most maxToolCalls tool calls, maxToolCalls being
\* the option clamped to 1..50 and 50 without an option; a run aborts only
\* with 'Tool call limit exceeded', and when a function call is due after
\* maxToolCalls dispatched ones, the next step aborts the run and
\* dispatches nothing.
C30_ToolCallLimit ==
  [][/\ RunWithinLimit(run) /\ RunWithinLimit(run')
     /\ (run.status = "tools" /\ run.dispatched = run.maxToolCalls)
          => /\ run'.status = "thrown"
             /\ run'.dispatched = run.dispatched
             /\ run'.functionCalls = run.functionCalls
             /\ UNCHANGED <<dirs, files, readGate, last>>]_vars

\* a run without the option was aborted after 50 dispatched calls, with
\* the 51st function call of the model left undone
C30_Witness ==
  /\ run.status = "thrown" /\ run.option = NoOption
  /\ run.dispatched = 50 /\ run.toolCallsUsed = 51
  /\ Len(run.functionCalls) = 1

\* ------------------------------------------------------------------------
\* AgentLogger: agent.raw.txt and its rotations, in the root
\* ------------------------------------------------------------------------

\* AgentLogger.maxBytes, scaled down
LogMaxBytes == 4

RawName == <<"a","g","e","n","t",".","r","a","w">>
\* this.rawPath, and base.replace(/\.txt$/, ".<k>.txt")
RawPath == RepoRoot \o <<RawName \o <<".","t","x","t">>>>
RotatedPath(k) ==
  RepoRoot \o <<RawName \o <<".">> \o (<<"0","1","2","3","4","5">>[k + 1]) \o <<".","t","x","t">>>>

\* fs.rmSync(p, {force: true}) of a regular file
RmSync(fl, p) == [q \in (DOMAIN fl) \ {p} |-> fl[q]]

\* fs.renameSync(from, to) of a regular file
RenameSync(fl, from, to) ==
  [q \in ((DOMAIN fl) \ {from}) \cup {to} |-> IF q = to THEN fl[from] ELSE fl[q]]

\* fs.appendFileSync(p, text): the file is created when it is missing
AppendFileSync(fl, p, text) ==
  [q \in (DOMAIN fl) \cup {p} |->
     IF q = p THEN (IF p \in DOMAIN fl THEN fl[p] ELSE <<>>) \o text ELSE fl[q]]

\* if (fs.existsSync(from)) fs.renameSync(from, to)
RenameIfExists(fl, from, to) == IF from \in DOMAIN fl THEN RenameSync(fl, from, to) ELSE fl

\* a rotation that moves the oldest file on instead of removing it
rotateLogs_KeepFour(fl) ==
  AppendFileSync(
    RmSync(RenameIfExists(RenameIfExists(RenameIfExists(RenameIfExists(fl,
      RotatedPath(3), RotatedPath(4)),
      RotatedPath(2), RotatedPath(3)),
      RotatedPath(1), RotatedPath(2)),
      RawPath, RotatedPath(1)), RawPath),
    RawPath, <<>>)

\* rotateLogs: remove .3, move .2 to .3, .1 to .2, the active file to .1,
\* write an empty active file
rotateLogs(fl) ==
  AppendFileSync(
    RmSync(RenameIfExists(RenameIfExists(RenameIfExists(
      (IF RotatedPath(3) \in DOMAIN fl THEN RmSync(fl, RotatedPath(3)) ELSE fl),
      RotatedPath(2), RotatedPath(3)),
      RotatedPath(1), RotatedPath(2)),
      RawPath, RotatedPath(1)), RawPath),
    RawPath, <<>>)

\* ensureRotation: st && st.isFile() && st.size > this.maxBytes
ensureRotation(fl) ==
  IF RawPath \in DOMAIN fl /\ ByteLength(fl[RawPath]) > LogMaxBytes THEN rotateLogs(fl) ELSE fl

\* appendLine / appendJSON from the redacted text on
appendText(fl, safe) ==
  ensureRotation(AppendFileSync(ensureRotation(fl), RawPath, safe \o <<"\n">>))

\* redacted lines, none with a secret in it, and JSON.stringify of objects
SafeLines == {<<"x">>, <<"x", "x">>, [i \in 1..(LogMaxBytes + 1) |-> "x"]}
JsonTexts == {<<"{", "}">>}

LogCall(name, text) == [NoCall EXCEPT !.name = name, !.result = text]

AppendLine ==
  \E safe \in SafeLines :
    /\ files' = appendText(files, safe)
    /\ last' = LogCall("appendLine", safe \o <<"\n">>)
    /\ UNCHANGED <<dirs, readGate, baselinePath, lineDiff, run, calls>>

AppendJSON ==
  \E line \in JsonTexts :
    /\ files' = appendText(files, line)
    /\ last' = LogCall("appendJSON", line \o <<"\n">>)
    /\ UNCHANGED <<dirs, readGate, baselinePath, lineDiff, run, calls>>

LogNext == AppendLine \/ AppendJSON

LogSpec == Init /\ [][LogNext]_vars

\* the content of a file, or nothing when it does not exist
ContentOrNone(fl, p) == IF p \in DOMAIN fl THEN <<fl[p]>> ELSE <<>>

\* C31: after every appendLine and appendJSON the active log exists and
\* has at most maxBytes bytes, agent.raw.4.txt does not exist and no file
\* but the logs changed; a call that takes the active log beyond maxBytes
\* makes it agent.raw.1.txt, moves the former .1 to .2 and .2 to .3, drops
\* the former .3 and starts an empty active log; any other call appends
\* its text to the active log and leaves the rotated files alone.
C31_LogRotation ==
  [][\A text \in {last'.result} :
     \A before \in {IF RawPath \in DOMAIN files THEN files[RawPath] ELSE <<>>} :
       /\ RawPath \in DOMAIN files' /\ Len(files'[RawPath]) <= LogMaxBytes
       /\ RotatedPath(4) \notin DOMAIN files'
       /\ \A q \in DOMAIN files \ ({RawPath} \cup {RotatedPath(k) : k \in 1..3}) :
            q \in DOMAIN files' /\ files'[q] = files[q]
       /\ IF Len(before) + Len(text) > LogMaxBytes
          THEN /\ files'[RawPath] = <<>>
               /\ files'[RotatedPath(1)] = before \o text
               /\ ContentOrNone(files', RotatedPath(2)) = ContentOrNone(files, RotatedPath(1))
               /\ ContentOrNone(files', RotatedPath(3)) = ContentOrNone(files, RotatedPath(2))
          ELSE /\ files'[RawPath] = before \o text
               /\ \A k \in 1..3 :
                    ContentOrNone(files', RotatedPath(k)) = ContentOrNone(files, RotatedPath(k))
    ]_vars

\* after a fourth rotation: three rotated files, each above maxBytes, an
\* empty active log
C31_Witness ==
  /\ last.name = "appendLine"
  /\ \A k \in 1..3 : RotatedPath(k) \in DOMAIN files /\ Len(files[RotatedPath(k)]) > LogMaxBytes
  /\ files[RotatedPath(1)] # files[RotatedPath(2)] /\ files[RotatedPath(2)] # files[RotatedPath(3)]
  /\ files[RawPath] = <<>>

\* sections for one target: y becomes z; the x before y becomes w; z
\* becomes q (z is not in a.txt at the start); two contents for new.txt
SameTargetPairs ==
  {<<Section(P_a, <<Del(<<"y">>), Add(<<"z">>)>>),
     Section(P_a, <<Del(<<"x">>), Add(<<"w">>), Ctx(<<"y">>)>>)>>,
   <<Section(P_a, <<Del(<<"x">>), Add(<<"w">>), Ctx(<<"y">>)>>),
     Section(P_a, <<Del(<<"y">>), Add(<<"z">>)>>)>>,
   <<Section(P_a, <<Del(<<"y">>), Add(<<"z">>)>>),
     Section(P_a, <<Del(<<"z">>), Add(<<"q">>)>>)>>,
   <<Section(P_a, <<Del(<<"z">>), Add(<<"q">>)>>),
     Section(P_a, <<Del(<<"y">>), Add(<<"z">>)>>)>>,
   <<Section(P_new, <<Add(<<"z">>)>>), Section(P_new, <<Add(<<"q">>), Add(<<"q">>)>>)>>}

PatchCall(lines) == [name |-> "apply_patch", arguments |-> PatchArgs(PatchText(lines))]

\* the target of the pair, as resolveInRepo names it
PairTarget(pair) == PathResolve(RepoRoot, Trim(Slice(pair[1][2], 6)))

\* C32: a patch of two sections for one target succeeds exactly when each
\* section alone succeeds in the same state, fails else with the error of
\* the first section that fails alone and writes nothing; when it
\* succeeds, the file holds what the second section alone leaves and the
\* report is that of the first followed by that of the second.
C32_SectionsSeeOriginal ==
  \A pair \in SameTargetPairs :
    \A r \in {dispatch(dirs, files, readGate, PatchCall(pair[1] \o pair[2]))},
       r1 \in {dispatch(dirs, files, readGate, PatchCall(pair[1]))},
       r2 \in {dispatch(dirs, files, readGate, PatchCall(pair[2]))} :
      /\ r.ok = (r1.ok /\ r2.ok)
      /\ ~r.ok => /\ r.error = (IF ~r1.ok THEN r1.error ELSE r2.error)
                  /\ r.files = files
      /\ r.ok => /\ r.files = r2.files
                 /\ r.result.files = r1.result.files \o r2.result.files
      /\ r.gate = readGate

\* a.txt after a patch of two sections for it: the x before y became w
\* as the second section says, the y that the first replaced is there
C32_Witness ==
  /\ last.name = "apply_patch" /\ last.ok
  /\ Len(last.result.files) = 2
  /\ last.result.files[1].path = P_a /\ last.result.files[2].path = P_a
  /\ files[PathResolve(RepoRoot, P_a)] = <<"w", "\n", "y", "\n", "x", "\n">>

\* sections for a.txt: another line of the same length, a longer line,
\* the same line again; and a section that creates new.txt
StatusSections ==
  {Section(P_a, <<Del(<<"y">>), Add(<<"z">>)>>),
   Section(P_a, <<Del(<<"y">>), Add(<<"z", "z">>)>>),
   Section(P_a, <<Del(<<"y">>), Add(<<"y">>)>>),
   Section(P_new, <<Add(<<"z">>)>>)}

\* the target of a section, as resolveInRepo names it
SectionTarget(sec) == PathResolve(RepoRoot, Trim(Slice(sec[2], 6)))

\* C33: a patch that succeeds reports created for a file that did not
\* exist, unchanged for a file whose content it left as it was, and
\* modified for a file whose content it changed.
C33_StatusTellsChange ==
  \A sec \in StatusSections :
    \A r \in {dispatch(dirs, files, readGate, PatchCall(sec))} :
      r.ok =>
        r.result.files[1].status =
          (IF SectionTarget(sec) \notin DOMAIN files THEN "created"
           ELSE IF r.files[SectionTarget(sec)] = files[SectionTarget(sec)] THEN "unchanged"
           ELSE "modified")

\* the paths of the files that the call recorded in l created
CreatedBy(l) ==
  IF l.name = "write_file" /\ l.ok /\ ~l.existed THEN {l.result.path}
  ELSE IF l.name = "apply_patch" /\ l.ok
  THEN {l.result.files[i].path : i \in {j \in 1..Len(l.result.files) :
                                          ~l.result.files[j].existed_before}}
  ELSE {}

\* write_file, delete_file and apply_patch on p all fail and change no file
StillGated(ds, fl, g, p) ==
  \A call \in {[name |-> "write_file", arguments |-> WriteArgs(p, <<"q">>)],
                [name |-> "delete_file", arguments |-> PathArgs(p)],
                PatchCall(Section(p, <<Del(<<"z">>), Add(<<"q">>)>>))} :
    \A r \in {dispatch(ds, fl, g, call)} : ~r.ok /\ r.files = fl

\* the ReadGate changes only in a successful read_file or
\* read_files_batch, and only by growing
GateGrowsByReads ==
  readGate' # readGate =>
    /\ last'.name \in {"read_file", "read_files_batch"} /\ last'.ok
    /\ readGate \subseteq readGate'

\* the files that the step created, when it was a write_file or an
\* apply_patch that succeeded
CreatedFiles(fl, fl2, l) ==
  IF l.name \in {"write_file", "apply_patch"} /\ l.ok THEN (DOMAIN fl2) \ (DOMAIN fl) ELSE {}

\* the paths to try on a created file: the ones the call reported and the
\* root-relative path of the file itself
PathsTo(f, l) == CreatedBy(l) \cup (IF InRoot(f) THEN {RelString(f)} ELSE {})

\* C34 (as stated): only a successful read_file or read_files_batch adds
\* to the ReadGate, and right after write_file or apply_patch has created
\* a file, write_file, delete_file and apply_patch on it fail.
C34_CreatedNeedsRead ==
  [][/\ GateGrowsByReads
     /\ \A f \in CreatedFiles(files, files', last') : \A p \in PathsTo(f, last') :
          StillGated(dirs', files', readGate', p)]_vars

\* C34 (amended): only a successful read_file or read_files_batch adds to
\* the ReadGate, and right after write_file or apply_patch has created a
\* file whose root-relative path is not in the ReadGate, write_file,
\* delete_file and apply_patch on it fail.
C34_CreatedUnreadNeedsRead ==
  [][/\ GateGrowsByReads
     /\ \A f \in CreatedFiles(files, files', last') : \A p \in PathsTo(f, last') :
          (InRoot(f) => RelString(f) \notin readGate')
            => StillGated(dirs', files', readGate', p)]_vars

\* new.txt was just created by write_file and its path was never read
C34_Witness ==
  /\ last.name = "write_file" /\ last.ok /\ ~last.existed
  /\ last.result.path = P_new
  /\ P_new \notin readGate
  /\ PathResolve(RepoRoot, P_new) \in DOMAIN files

\* --- a diff against the current content, handed back as a patch ---

\* the texts a file is given and the texts proposed for it: one line, two
\* lines ending in CRLF and in LF, no text, and a line that begins "-- a/"
HeaderLike == <<"-", "-", " ", "a", "/">>
RoundContents == {<<"z">>, <<"x", "\r", "\n", "y">>, <<"x", "\n", "z", "\n">>, <<>>,
                  HeaderLike \o <<"\n">>}
RoundPaths == {P_a, P_new}

WriteRound ==
  \E p \in RoundPaths, c \in RoundContents :
    \E d \in {Dispatched([name |-> "write_file", arguments |-> WriteArgs(p, c)])} :
      /\ dirs' = d.dirs /\ files' = d.files /\ readGate' = d.gate /\ last' = d.last
      /\ UNCHANGED <<baselinePath, lineDiff, run, calls>>

ReadRound ==
  \E p \in RoundPaths :
    \E d \in {Dispatched([name |-> "read_file", arguments |-> PathArgs(p)])} :
      /\ dirs' = d.dirs /\ files' = d.files /\ readGate' = d.gate /\ last' = d.last
      /\ UNCHANGED <<baselinePath, lineDiff, run, calls>>

\* apply_patch on the diff_text of diff_file_against_current(p, c), from the
\* state (ds, fl, g); a diff that fails gives its own failure
DiffCurrentCall(p, c) ==
  [name |-> "diff_file_against_current", arguments |-> DiffArgs(p, c, DefaultMaxLines)]
ApplyDiffCall(d) == [name |-> "apply_patch", arguments |-> PatchArgs(d.result.diff_text)]
RoundTripOf(ds, fl, g, p, c) ==
  LET d == dispatch(ds, fl, g, DiffCurrentCall(p, c))
  IN IF ~d.ok THEN d ELSE dispatch(d.dirs, d.files, d.gate, ApplyDiffCall(d))

\* the two calls, one after the other
RoundTrip ==
  \E p \in RoundPaths, c \in RoundContents :
    \E d \in {dispatch(dirs, files, readGate, DiffCurrentCall(p, c))},
       r \in {RoundTripOf(dirs, files, readGate, p, c)} :
      /\ dirs' = r.dirs /\ files' = r.files /\ readGate' = r.gate
      /\ last' = IF ~d.ok
                 THEN Outcome(DiffCurrentCall(p, c), d, resolveInRepo(dirs, files, p))
                 ELSE Outcome(ApplyDiffCall(d), r,
                              resolveInRepo(dirs, files, ApplyDiffCall(d).arguments.path))
      /\ UNCHANGED <<baselinePath, lineDiff, run, calls>>

RoundNext == WriteRound \/ ReadRound \/ RoundTrip

RoundSpec == Init /\ [][RoundNext]_vars

\* the text with its line terminators made LF
NormalizedLF(c) == Join(SplitLines(c), <<"\n">>)

\* C35: for an existing file that was read and every proposed content,
\* apply_patch on the untruncated diff_text of diff_file_against_current
\* succeeds and leaves the file with the proposed content, its line
\* terminators LF
C35_RoundTrip ==
  \A p \in RoundPaths :
    (PathResolve(RepoRoot, p) \in DOMAIN files /\ p \in readGate)
      => \A c \in RoundContents :
           \A r \in {RoundTripOf(dirs, files, readGate, p, c)} :
             /\ r.ok
             /\ PathResolve(RepoRoot, p) \in DOMAIN r.files
             /\ r.files[PathResolve(RepoRoot, p)] = NormalizedLF(c)

\* --- the lister and the sandbox on a tree that grows outside the tools ---

\* directories and files someone else creates below the root: a directory
\* with a denied extension, a directory with a denied file name, a plain
\* directory, a file in each of them, and a file with a denied extension
S_c_pem == <<"c", ".", "p", "e", "m">>
S_lib   == <<"l", "i", "b">>
LayoutDirs == {RepoRoot \o <<S_c_pem>>, RepoRoot \o <<S_src, S_env>>, RepoRoot \o <<S_src, S_lib>>}
LayoutFiles == {d \o <<S_x>> : d \in LayoutDirs} \cup {RepoRoot \o <<S_src, S_id_key>>}

OutsideMkdir ==
  \E d \in LayoutDirs \ dirs :
    /\ Parent(d) \in dirs
    /\ dirs' = dirs \cup {d}
    /\ last' = NoCall
    /\ UNCHANGED <<files, readGate, baselinePath, lineDiff, run, calls>>

OutsideCreate ==
  \E f \in LayoutFiles \ DOMAIN files :
    /\ Parent(f) \in dirs
    /\ files' = [q \in (DOMAIN files) \cup {f} |-> IF q = f THEN <<"k", "\n">> ELSE files[q]]
    /\ last' = NoCall
    /\ UNCHANGED <<dirs, readGate, baselinePath, lineDiff, run, calls>>

ReadLayout ==
  \E f \in LayoutFiles :
    \E d \in {Dispatched([name |-> "read_file", arguments |-> PathArgs(RelString(f))])} :
      /\ dirs' = d.dirs /\ files' = d.files /\ readGate' = d.gate /\ last' = d.last
      /\ UNCHANGED <<baselinePath, lineDiff, run, calls>>

LayoutNext == OutsideMkdir \/ OutsideCreate \/ ListFiles \/ ReadLayout

LayoutSpec == Init /\ [][LayoutNext]_vars

\* the regular files below the root, each under its real path
RegularFiles(fl) == {f \in DOMAIN fl : InRoot(f)}

\* C36: a regular file below the root that is not reached through a
\* symbolic link is in the listing (maxFiles large enough) exactly when
\* resolveInRepo accepts its root-relative path
C36_SamePolicy ==
  \A listed \in {SeqToSet(listFilesRecursive(dirs, files, ListerMaxFiles))} :
    \A f \in RegularFiles(files) :
      (RelString(f) \in listed) <=> resolveInRepo(dirs, files, RelString(f)).ok

\* the same for the files none of whose directories has the name of a
\* denied file or a denied extension
PlainDirs(rel) ==
  \A i \in 1..(Len(Split(rel, "/")) - 1) :
    \A seg \in {ToLowerCase(Split(rel, "/")[i])} :
      seg \notin DenyFilesLower /\ PosixExtname(seg) \notin DenyExtsLower
SamePolicyPlainDirs ==
  \A listed \in {SeqToSet(listFilesRecursive(dirs, files, ListerMaxFiles))} :
    \A f \in RegularFiles(files) :
      PlainDirs(RelString(f))
        => ((RelString(f) \in listed) <=> resolveInRepo(dirs, files, RelString(f)).ok)

\* --- calls with paths into directories that do not exist ---

\* a file below a regular file, besides: a file in a missing directory
\* (nodir/x), a new file in src, a new and an existing file in the root
DeepPaths == {P_nodir, P_n, P_new, P_a, P_under}
MissingParentPaths == {P_nodir, P_upup}

WriteDeep ==
  \E p \in DeepPaths :
    \E d \in {Dispatched([name |-> "write_file", arguments |-> WriteArgs(p, <<"z">>)])} :
      /\ dirs' = d.dirs /\ files' = d.files /\ readGate' = d.gate /\ last' = d.last
      /\ UNCHANGED <<baselinePath, lineDiff, run, calls>>

ReadDeep ==
  \E p \in DeepPaths :
    \E d \in {Dispatched([name |-> "read_file", arguments |-> PathArgs(p)])} :
      /\ dirs' = d.dirs /\ files' = d.files /\ readGate' = d.gate /\ last' = d.last
      /\ UNCHANGED <<baselinePath, lineDiff, run, calls>>

DeleteDeep ==
  \E p \in DeepPaths :
    \E d \in {Dispatched([name |-> "delete_file", arguments |-> PathArgs(p)])} :
      /\ dirs' = d.dirs /\ files' = d.files /\ readGate' = d.gate /\ last' = d.last
      /\ UNCHANGED <<baselinePath, lineDiff, run, calls>>

PatchDeep ==
  \E p \in DeepPaths :
    \E d \in {Dispatched([name |-> "apply_patch",
                          arguments |-> PatchArgs(PatchText(Section(p, <<Add(<<"w">>)>>)))])} :
      /\ dirs' = d.dirs /\ files' = d.files /\ readGate' = d.gate /\ last' = d.last
      /\ UNCHANGED <<baselinePath, lineDiff, run, calls>>

DeepNext == WriteDeep \/ ReadDeep \/ DeleteDeep \/ PatchDeep

DeepSpec == Init /\ [][DeepNext]_vars

\* C37: resolveInRepo fails with InvalidPath for a path to a missing file
\* whose parent directory does not exist, and the directories are the ones
\* the session started with, whatever calls were made
C37_DirectoriesFixed ==
  /\ \A p \in MissingParentPaths : resolveInRepo(dirs, files, p).err = "InvalidPath"
  /\ dirs = StartTree.dirs

\* a file was created in src, and a write into a missing directory failed
C37_Witness ==
  /\ PathResolve(RepoRoot, P_n) \in DOMAIN files
  /\ last.name = "write_file" /\ ~last.ok /\ last.error = "InvalidPath"
  /\ ~last.resolved

\* --- calls on a file above the read limit ---

\* patches of big.txt: its lines replaced, and a line added
LargePatches ==
  {PatchText(Section(P_big, <<Del(BigContent), Add(<<"z">>)>>)),
   PatchText(Section(P_big, <<Add(<<"z">>)>>))}

PatchLarge ==
  \E t \in LargePatches :
    \E d \in {Dispatched([name |-> "apply_patch", arguments |-> PatchArgs(t)])} :
      /\ dirs' = d.dirs /\ files' = d.files /\ readGate' = d.gate /\ last' = d.last
      /\ UNCHANGED <<baselinePath, lineDiff, run, calls>>

LargeNext ==
  \/ ReadFile
  \/ ReadFilesBatch
  \/ WriteFile
  \/ DeleteFile
  \/ DiffFileAgainstCurrent
  \/ PatchLarge

LargeSpec == Init /\ [][LargeNext]_vars

\* C38: a file that is larger than maxReadBytes when the session starts
\* (big.txt, within maxWriteBytes) never enters the ReadGate and keeps its
\* content, whatever calls are made
C38_LargeFileUntouched ==
  /\ ByteLength(StartTree.files[PathResolve(RepoRoot, P_big)]) > MaxReadBytes
  /\ ByteLength(StartTree.files[PathResolve(RepoRoot, P_big)]) <= MaxWriteBytes
  /\ P_big \notin readGate
  /\ PathResolve(RepoRoot, P_big) \in DOMAIN files
  /\ files[PathResolve(RepoRoot, P_big)] = StartTree.files[PathResolve(RepoRoot, P_big)]

\* a patch of big.txt was refused because the file was not read
C38_Witness ==
  /\ last.name = "apply_patch" /\ ~last.ok /\ last.error = "ReadRequired"
  /\ PathResolve(RepoRoot, P_a) \in DOMAIN files /\ P_a \in readGate

\* --- the list of changed files against the diff of each file ---

\* files an editor rewrites, creates or removes during the run: m.ts with
\* CRLF line ends and with another line, a new file within and above the
\* read limit
EditedFiles == {PathResolve(RepoRoot, P_m), PathResolve(RepoRoot, P_new)}
EditedContents == {<<"m", "\r", "\n">>, <<"q", "\n">>, BigContent}

OutsideEdit ==
  \E f \in EditedFiles, c \in EditedContents :
    /\ files' = [q \in (DOMAIN files) \cup {f} |-> IF q = f THEN c ELSE files[q]]
    /\ last' = NoCall
    /\ UNCHANGED <<dirs, readGate, baselinePath, lineDiff, run, calls>>

OutsideUnlink ==
  \E f \in EditedFiles \cap DOMAIN files :
    /\ files' = UnlinkSync(files, f)
    /\ last' = NoCall
    /\ UNCHANGED <<dirs, readGate, baselinePath, lineDiff, run, calls>>

AgreePaths == {P_m, P_new, P_a, P_big}
OriginalDiffCall(p) ==
  [name |-> "diff_file_against_original", arguments |-> DiffArgs(p, <<>>, DefaultMaxLines)]

DiffEdited ==
  \E p \in AgreePaths :
    \E d \in {Dispatched(OriginalDiffCall(p))} :
      /\ dirs' = d.dirs /\ files' = d.files /\ readGate' = d.gate /\ last' = d.last
      /\ UNCHANGED <<baselinePath, lineDiff, run, calls>>

AgreeNext == OutsideEdit \/ OutsideUnlink \/ ListChangedFiles \/ DiffEdited

AgreeSpec == Init /\ [][AgreeNext]_vars

\* the diff of the path reports the status
DiffReports(p, status) ==
  \E d \in {dispatch(dirs, files, readGate, OriginalDiffCall(p))} :
    d.ok /\ d.result.status = status

\* a path is in the list of the listing exactly when its diff has the status
ListsAgree(paths) ==
  \A r \in {dispatch(dirs, files, readGate, ChangedCall(<<>>, DefaultListLimit))} :
    /\ r.ok
    /\ \A p \in paths :
         /\ (p \in SeqToSet(r.result.modified)) <=> DiffReports(p, "modified")
         /\ (p \in SeqToSet(r.result.added)) <=> DiffReports(p, "added")
         /\ (p \in SeqToSet(r.result.deleted)) <=> DiffReports(p, "deleted")

\* C39: list_changed_files has a path under modified, added or deleted
\* exactly when diff_file_against_original reports that status for it
C39_ListAndDiffAgree == ListsAgree(AgreePaths)

\* the same when no file differs from the snapshot in its line ends only
\* and no new file is above the read limit
SameLines(p) ==
  /\ BaselineHas(p) /\ BaselineOf(p).content # Null
  /\ PathResolve(RepoRoot, p) \in DOMAIN files
  /\ files[PathResolve(RepoRoot, p)] # BaselineOf(p).content
  /\ SplitLines(files[PathResolve(RepoRoot, p)]) = SplitLines(BaselineOf(p).content)
LargeNew(p) ==
  /\ ~BaselineHas(p) /\ PathResolve(RepoRoot, p) \in DOMAIN files
  /\ ByteLength(files[PathResolve(RepoRoot, p)]) > MaxReadBytes
AgreeOtherwise == ListsAgree({p \in AgreePaths : ~SameLines(p) /\ ~LargeNew(p)})

\* C40: the ops of diffLines rebuild both arguments: the lines of the equal
\* and remove runs, in order, are the first argument, and the lines of the
\* equal and add runs, in order, are the second; two empty arguments give
\* no ops
C40_OpsRebuildInputs ==
  /\ diffLines(<<>>, <<>>) = <<>>
  /\ lineDiff.stage \in {"ops", "text"}
       => /\ LinesOf(lineDiff.ops, {"equal", "remove"}) = lineDiff.a
          /\ LinesOf(lineDiff.ops, {"add", "equal"}) = lineDiff.b
          /\ \A k \in 1..Len(lineDiff.ops) : lineDiff.ops[k].lines # <<>>

\* two arguments of full length with a common line: the ops have runs of
\* all three types, and lines are left on one side when the other is used up
C40_Witness ==
  /\ lineDiff.stage = "ops"
  /\ Len(lineDiff.a) = MaxDiffLines /\ Len(lineDiff.b) = MaxDiffLines
  /\ lineDiff.a # lineDiff.b
  /\ {lineDiff.ops[k].type : k \in 1..Len(lineDiff.ops)} = {"equal", "add", "remove"}
  /\ lineDiff.ops[Len(lineDiff.ops)].type # "equal"

====
